---- MODULE Spec2Model ----
(***************************************************************************)
(* Model of the download side of golang-youtube-downloader:                *)
(*   pkg/download/download.go  DownloadStream, progressReader,             *)
(*                             DownloadStreamsParallel,                    *)
(*                             aggregateProgressTracker, DownloadBatch     *)
(*   cmd/ytdl/info.go          runDownloadWithDeps, downloadPlaylist,      *)
(*                             downloadChannel                             *)
(* Bytes are counted in chunks; a server body of k chunks served from URL  *)
(* u is the sequence of k copies of u.  An error value is the string of    *)
(* its outermost message; the errors that wrap the context's cancellation  *)
(* are exactly those of CancelErrors.                                      *)
(***************************************************************************)
EXTENDS Integers, Sequences, FiniteSets, TLC

\* ------------------------------------------------------------------ bounds
MaxStreams == 2
MaxItems == 3
MaxCalls == 2
MaxOptions == 3

\* ------------------------------------------------------- mock environment
\* The servers the downloads talk to (the httptest servers of
\* download_test.go): response status, Content-Length as net/http reports it
\* (-1 when the server sent none) and the number of body chunks.
Server(u) ==
    CASE u = "ok2"     -> [status |-> 200, contentLength |-> 2,  body |-> 2]
      [] u = "ok1"     -> [status |-> 200, contentLength |-> 1,  body |-> 1]
      [] u = "nolen"   -> [status |-> 200, contentLength |-> -1, body |-> 1]
      [] u = "http500" -> [status |-> 500, contentLength |-> 1,  body |-> 1]
      [] u = "ok3"     -> [status |-> 200, contentLength |-> 3,  body |-> 3]

\* Destination paths; os.Create fails on those of UnwritablePaths.
UnwritablePaths == {"ro/f5"}

StreamDownload ==
    { [URL |-> "ok2",     FilePath |-> "f1"],
      [URL |-> "ok1",     FilePath |-> "f2"],
      [URL |-> "nolen",   FilePath |-> "f3"],
      [URL |-> "http500", FilePath |-> "f4"],
      [URL |-> "ok1",     FilePath |-> "ro/f5"] }

\* Paths of the download command: the intermediate files in the temporary
\* directory and the output file
CommandPaths ==
    {"tmp/video.mp4", "tmp/video.webm", "tmp/audio.mp4", "tmp/audio.webm",
     "out/title.mp4", "out/title.webm", "out/title.mp3"}

\* A directory that does not exist before the first call, and a file in it
NewPaths == {"new", "new/f6"}

AllPaths == { s.FilePath : s \in StreamDownload } \cup CommandPaths
               \cup NewPaths

\* ------------------------------------------------------------ error values
NilErr        == "nil"
CtxCanceled   == "context canceled"
ErrExecuting  == "executing request: context canceled"
ErrHTTP       == "HTTP error"
ErrNoScheme   == "executing request: unsupported protocol scheme"
ErrCreateFile == "creating file"
ErrWriting    == "writing to file: context canceled"
CancelErrors  == {CtxCanceled, ErrExecuting, ErrWriting}

ZeroProgress == [Downloaded |-> 0, Total |-> 0]
ZeroResult   == [FilePath |-> "", Error |-> NilErr]
NoReport     == [Downloaded |-> -1, Total |-> -1]
NoFile       == <<"absent">>
IsDir        == <<"directory">>
NoArgs       == [url |-> "", filePath |-> "", progress |-> "nil"]

VARIABLES
    \* ---- DownloadStream, one call per task (a goroutine or a batch item)
    ctxCancelled,   \* ctx.Err() != nil
    args,           \* url, filePath and progress callback of each call
    tpc,            \* position of each task inside DownloadStream
    terr,           \* the error DownloadStream returns, per task
    remaining,      \* unread chunks of each task's response body
    downloaded,     \* chunks the task's Reads have returned so far
                    \* (progressReader.downloaded)
    files,          \* file system: path -> content, NoFile when absent
    startedAtCancel,\* history: the tasks whose DownloadStream call had begun
                    \* when ctx was cancelled
    \* ---- the function that calls DownloadStream
    hasProgress,    \* its progress argument is not nil
    results,        \* the results slice being filled
    ret,            \* the slice returned to the caller
    mainPc,         \* position of the function
    cancelledAtCall,\* history: ctx was already cancelled when the call began
    \* ---- DownloadStreamsParallel
    streams,        \* argument streams
    spawned,        \* goroutines started by the range loop
    wg,             \* sync.WaitGroup counter
    mu,             \* aggregateProgressTracker.mu: 0 or the holder
    progresses,     \* aggregateProgressTracker.progresses
    acc,            \* totalDownloaded and totalSize, per task
    snap,           \* history: progresses right after the task's slot write
    cbActive,       \* tasks that are executing the caller's callback
    lastReport,     \* argument of the latest invocation of the callback
    \* ---- DownloadBatch
    items,          \* argument items
    bi,             \* loop variable i (0-based, as in the source)
    reports,        \* the BatchProgress values passed to progress, in order
    \* ---- runDownloadWithDeps
    query,          \* what youtube.ResolveQuery returned for urlStr
    opts,           \* the downloadOptions
    opc,            \* position of the orchestrator
    oerr,           \* the error runDownloadWithDeps returns
    out,            \* the lines written to w, in order
    playlistArg,    \* playlistID argument of the downloadPlaylist call
    fetches,        \* calls of fetcher.Fetch so far
    odetail,        \* what follows the colon in oerr's message: the wrapped
                    \* error (%w) or the reason (%s)
    muxer,          \* the MuxerFunc argument: "nil" or "ffmpeg"
    playerResponse, \* what watchPage.ExtractPlayerResponse returned
    manifest,       \* what StreamingData.GetStreamManifest returned
    selectedOption, \* what youtube.SelectBestOption returned
    tempDir,        \* downloadAndMux's temporary directory: "none",
                    \* "exists" or "removed"
    cmdErr,         \* what runDownload returns to the command's caller
    \* ---- a caller's own progress callback
    progressLog,    \* per task: the Progress values its callback received
    \* ---- ffmpeg.MuxStreamsWithContext
    env,            \* working directory, executable's directory, the entries
                    \* of PATH, and the directories that hold an ffmpeg
    muxpc,          \* position inside MuxStreamsWithContext
    muxArgs,        \* videoPath, audioPath, outputPath
    muxErr,         \* the error it returns
    children,       \* the child processes spawned so far, with their argv
    \* ---- a function of pkg/youtube called on its own
    fnCall,         \* the function and its arguments
    fnResult        \* what it returned

dlvars    == <<ctxCancelled, args, tpc, terr, remaining, downloaded, files,
               startedAtCancel>>
callvars  == <<hasProgress, results, ret, mainPc, cancelledAtCall>>
parvars   == <<streams, spawned, wg, mu, progresses, acc, snap, cbActive,
               lastReport>>
batchvars == <<items, bi, reports>>
fnvars    == <<fnCall, fnResult>>
muxvars   == <<env, muxpc, muxArgs, muxErr, children>>
videovars == <<odetail, muxer, playerResponse, manifest, selectedOption,
               tempDir, cmdErr>>
orchvars  == <<query, opts, opc, oerr, out, playlistArg, fetches, videovars>>
vars == <<dlvars, callvars, parvars, batchvars, orchvars, progressLog, muxvars, fnvars>>

Tasks == DOMAIN tpc

RECURSIVE SumDownloaded(_, _)
SumDownloaded(ps, k) ==
    IF k = 0 THEN 0 ELSE SumDownloaded(ps, k - 1) + ps[k].Downloaded

RECURSIVE SumTotal(_, _)
SumTotal(ps, k) ==
    IF k = 0 THEN 0 ELSE SumTotal(ps, k - 1) + ps[k].Total

Repeat(x, n) == [k \in 1..n |-> x]

\* ---------------------------------------------------------- DownloadStream
StatusOK_Always(code) == TRUE

StatusOK(code) == code >= 200 /\ code < 300

RequestCancelled_NoContext(cancelled) == FALSE

\* The request is bound to ctx (http.NewRequestWithContext): client.Do
\* fails at once when ctx is cancelled.
RequestCancelled(cancelled) == cancelled

\* http.NewRequestWithContext, client.Do and the status check
DoRequest(t) ==
    /\ tpc[t] = "request"
    /\ IF RequestCancelled(ctxCancelled)
       THEN /\ terr' = [terr EXCEPT ![t] = ErrExecuting]
            /\ tpc' = [tpc EXCEPT ![t] = "returned"]
            /\ UNCHANGED remaining
       ELSE IF args[t].url = ""
       THEN /\ terr' = [terr EXCEPT ![t] = ErrNoScheme]
            /\ tpc' = [tpc EXCEPT ![t] = "returned"]
            /\ UNCHANGED remaining
       ELSE IF ~StatusOK(Server(args[t].url).status)
       THEN /\ terr' = [terr EXCEPT ![t] = ErrHTTP]
            /\ tpc' = [tpc EXCEPT ![t] = "returned"]
            /\ UNCHANGED remaining
       ELSE /\ remaining' = [remaining EXCEPT ![t] = Server(args[t].url).body]
            /\ tpc' = [tpc EXCEPT ![t] = "create"]
            /\ UNCHANGED terr
    /\ UNCHANGED <<ctxCancelled, args, downloaded, files, startedAtCancel>>
    /\ UNCHANGED <<callvars, parvars, batchvars, orchvars, progressLog, muxvars, fnvars>>

\* filepath.Dir(filePath)
DirOf(filePath) ==
    CASE filePath = "new/f6" -> "new"
      [] filePath = "ro/f5"  -> "ro"
      [] filePath \in {"out/title.mp4", "out/title.webm", "out/title.mp3"}
                             -> "out"
      [] filePath \in {"tmp/video.mp4", "tmp/video.webm", "tmp/audio.mp4",
                       "tmp/audio.webm"} -> "tmp"
      [] OTHER -> "."

\* os.MkdirAll(dir, 0o755); the directories that exist from the start are
\* not kept in the file system
MkdirAll(fs, dir) ==
    IF dir \in DOMAIN fs THEN [fs EXCEPT ![dir] = IsDir] ELSE fs

Truncate_Keep(content) == IF content = NoFile THEN <<>> ELSE content

\* os.Create opens with O_CREATE|O_TRUNC: whatever the file held is gone
Truncate(content) == <<>>

\* os.MkdirAll and os.Create: the file exists and is empty afterwards
CreateFile(t) ==
    /\ tpc[t] = "create"
    /\ IF args[t].filePath \in UnwritablePaths
       THEN /\ terr' = [terr EXCEPT ![t] = ErrCreateFile]
            /\ tpc' = [tpc EXCEPT ![t] = "returned"]
            /\ UNCHANGED files
       ELSE /\ files' = [MkdirAll(files, DirOf(args[t].filePath))
                            EXCEPT ![args[t].filePath] = Truncate(@)]
            /\ tpc' = [tpc EXCEPT ![t] = "read"]
            /\ UNCHANGED terr
    /\ UNCHANGED <<ctxCancelled, args, remaining, downloaded, startedAtCancel>>
    /\ UNCHANGED <<callvars, parvars, batchvars, orchvars, progressLog, muxvars, fnvars>>

\* Where Read goes once the wrapped reader has returned n > 0: into the
\* progress callback (progressReader.Read), or back to io.Copy when the
\* call has no callback and reads the body directly.
AfterRead(progress) ==
    CASE progress = "nil"       -> "write"
      [] progress = "aggregate" -> "lock"
      [] progress = "batch"     -> "batchcallback"
      [] progress = "plain"     -> "plaincallback"

\* io.Copy: a Read that returns n > 0 chunks (pr.downloaded += n)
ReadData(t) ==
    /\ tpc[t] = "read"
    /\ remaining[t] > 0
    /\ \E n \in 1..remaining[t] :
          downloaded' = [downloaded EXCEPT ![t] = @ + n]
    /\ tpc' = [tpc EXCEPT ![t] = AfterRead(args[t].progress)]
    /\ UNCHANGED <<ctxCancelled, args, terr, remaining, files,
                   startedAtCancel>>
    /\ UNCHANGED <<callvars, parvars, batchvars, orchvars, progressLog, muxvars, fnvars>>

\* io.Copy appends the chunks the Read returned to the file
WriteData(t) ==
    /\ tpc[t] = "write"
    /\ LET n == downloaded[t] - (Server(args[t].url).body - remaining[t])
       IN /\ files' = [files EXCEPT ![args[t].filePath] =
                          @ \o Repeat(args[t].url, n)]
          /\ remaining' = [remaining EXCEPT ![t] = @ - n]
    /\ tpc' = [tpc EXCEPT ![t] = "read"]
    /\ UNCHANGED <<ctxCancelled, args, terr, downloaded, startedAtCancel>>
    /\ UNCHANGED <<callvars, parvars, batchvars, orchvars, progressLog, muxvars, fnvars>>

\* io.Copy: Read returns io.EOF, DownloadStream returns nil
ReadEOF(t) ==
    /\ tpc[t] = "read"
    /\ remaining[t] = 0
    /\ terr' = [terr EXCEPT ![t] = NilErr]
    /\ tpc' = [tpc EXCEPT ![t] = "returned"]
    /\ UNCHANGED <<ctxCancelled, args, remaining, downloaded, files,
                   startedAtCancel>>
    /\ UNCHANGED <<callvars, parvars, batchvars, orchvars, progressLog, muxvars, fnvars>>

\* io.Copy: a Read on the body of a cancelled request fails
ReadCancelled(t) ==
    /\ tpc[t] = "read"
    /\ ctxCancelled
    /\ terr' = [terr EXCEPT ![t] = ErrWriting]
    /\ tpc' = [tpc EXCEPT ![t] = "returned"]
    /\ UNCHANGED <<ctxCancelled, args, remaining, downloaded, files,
                   startedAtCancel>>
    /\ UNCHANGED <<callvars, parvars, batchvars, orchvars, progressLog, muxvars, fnvars>>

\* What DownloadStream returns for (url, filePath) when nothing cancels ctx
SoloOutcome(url, filePath) ==
    IF ~StatusOK(Server(url).status) THEN ErrHTTP
    ELSE IF filePath \in UnwritablePaths THEN ErrCreateFile
    ELSE NilErr

\* the caller cancels the context, at any moment before the call returns
Cancel ==
    /\ mainPc # "returned"
    /\ ~ctxCancelled
    /\ ctxCancelled' = TRUE
    /\ startedAtCancel' = {t \in Tasks : tpc[t] # "idle"}
    /\ UNCHANGED <<args, tpc, terr, remaining, downloaded, files>>
    /\ UNCHANGED <<callvars, parvars, batchvars, orchvars, progressLog, muxvars, fnvars>>

\* ------------------------------------------------ aggregateProgressTracker
MutexFree_NoLock(m) == TRUE

MutexFree(m) == m = 0

\* apt.mu.Lock(); apt.progresses[index] = p
TrackerLockWrite(t) ==
    /\ tpc[t] = "lock"
    /\ MutexFree(mu)
    /\ mu' = t
    /\ progresses' = [progresses EXCEPT ![t] =
           [Downloaded |-> downloaded[t],
            Total      |-> Server(args[t].url).contentLength]]
    /\ snap' = [snap EXCEPT ![t] = progresses']
    /\ tpc' = [tpc EXCEPT ![t] = "sum"]
    /\ UNCHANGED <<ctxCancelled, args, terr, remaining, downloaded, files,
                   startedAtCancel>>
    /\ UNCHANGED callvars
    /\ UNCHANGED <<batchvars, orchvars, progressLog, muxvars, fnvars>>
    /\ UNCHANGED <<streams, spawned, wg, acc, cbActive,
                   lastReport>>

\* for _, sp := range apt.progresses { totalDownloaded += ...; totalSize += ... }
TrackerSum(t) ==
    /\ tpc[t] = "sum"
    /\ acc' = [acc EXCEPT ![t] =
           [Downloaded |-> SumDownloaded(progresses, Len(progresses)),
            Total      |-> SumTotal(progresses, Len(progresses))]]
    /\ tpc' = [tpc EXCEPT ![t] = "unlock"]
    /\ UNCHANGED <<ctxCancelled, args, terr, remaining, downloaded, files,
                   startedAtCancel>>
    /\ UNCHANGED callvars
    /\ UNCHANGED <<batchvars, orchvars, progressLog, muxvars, fnvars>>
    /\ UNCHANGED <<streams, spawned, wg, mu, progresses,
                   snap, cbActive, lastReport>>

\* apt.mu.Unlock()
TrackerUnlock(t) ==
    /\ tpc[t] = "unlock"
    /\ mu' = 0
    /\ tpc' = [tpc EXCEPT ![t] = "callback"]
    /\ UNCHANGED <<ctxCancelled, args, terr, remaining, downloaded, files,
                   startedAtCancel>>
    /\ UNCHANGED callvars
    /\ UNCHANGED <<batchvars, orchvars, progressLog, muxvars, fnvars>>
    /\ UNCHANGED <<streams, spawned, wg, progresses, acc,
                   snap, cbActive, lastReport>>

\* apt.callback(Progress{totalDownloaded, totalSize}) is entered; the two
\* locals are dead from here on
CallbackEnter(t) ==
    /\ tpc[t] = "callback"
    /\ lastReport' = acc[t]
    /\ cbActive' = cbActive \cup {t}
    /\ acc' = [acc EXCEPT ![t] = ZeroProgress]
    /\ snap' = [snap EXCEPT ![t] = <<>>]
    /\ tpc' = [tpc EXCEPT ![t] = "incallback"]
    /\ UNCHANGED <<ctxCancelled, args, terr, remaining, downloaded, files,
                   startedAtCancel>>
    /\ UNCHANGED callvars
    /\ UNCHANGED <<batchvars, orchvars, progressLog, muxvars, fnvars>>
    /\ UNCHANGED <<streams, spawned, wg, mu, progresses>>

\* the caller's callback returns, and with it the task's progress callback
CallbackReturn(t) ==
    /\ tpc[t] = "incallback"
    /\ cbActive' = cbActive \ {t}
    /\ tpc' = [tpc EXCEPT ![t] = "write"]
    /\ UNCHANGED <<ctxCancelled, args, terr, remaining, downloaded, files,
                   startedAtCancel>>
    /\ UNCHANGED callvars
    /\ UNCHANGED <<batchvars, orchvars, progressLog, muxvars, fnvars>>
    /\ UNCHANGED <<streams, spawned, wg, mu, progresses,
                   acc, snap, lastReport>>

\* ------------------------------------------------ DownloadStreamsParallel
StreamLists ==
    UNION { [1..n -> StreamDownload] : n \in 0..MaxStreams }

InitDownloads(n) ==
    /\ startedAtCancel = {}
    /\ args = [t \in 1..n |-> NoArgs]
    /\ tpc = [t \in 1..n |-> "idle"]
    /\ terr = [t \in 1..n |-> NilErr]
    /\ remaining = [t \in 1..n |-> 0]
    /\ downloaded = [t \in 1..n |-> 0]
    /\ files = [p \in AllPaths |-> NoFile]
    /\ progressLog = [t \in 1..n |-> <<>>]

ParallelIdle ==
    /\ streams = <<>>
    /\ spawned = 0
    /\ wg = 0
    /\ mu = 0
    /\ progresses = <<>>
    /\ acc = <<>>
    /\ snap = <<>>
    /\ cbActive = {}
    /\ lastReport = NoReport

BatchIdle ==
    /\ items = <<>>
    /\ bi = 0
    /\ reports = <<>>

NoQuery ==
    [Type |-> "", VideoID |-> <<>>, PlaylistID |-> <<>>,
     Channel |-> [Type |-> "", Value |-> <<>>], SearchQuery |-> <<>>]

\* A nil *VideoStreamInfo, *AudioStreamInfo or *DownloadOption
NilStream == [nil |-> TRUE]
NilOption == [nil |-> TRUE]

\* No player response yet, and no manifest yet
NoResponse == [Status |-> "", Reason |-> "", StreamingData |-> FALSE]
NoManifest == [nil |-> TRUE]

\* runDownload has not returned
NoCmdErr == [Friendly |-> "", Err |-> "", Detail |-> ""]

VideoIdle ==
    /\ cmdErr = NoCmdErr
    /\ odetail = NilErr
    /\ muxer = "nil"
    /\ playerResponse = NoResponse
    /\ manifest = NoManifest
    /\ selectedOption = NilOption
    /\ tempDir = "none"

OrchIdle ==
    /\ query = NoQuery
    /\ opts = [quality |-> "", format |-> ""]
    /\ opc = "idle"
    /\ oerr = NilErr
    /\ out = <<>>
    /\ playlistArg = <<>>
    /\ fetches = 0
    /\ VideoIdle

NoEnv == [wd |-> "", exeDir |-> "", path |-> <<>>, ffmpegIn |-> {}]
NoMuxArgs == [videoPath |-> "", audioPath |-> "", outputPath |-> ""]

NoCall == [fn |-> ""]
NoResult == [none |-> TRUE]

FnIdle ==
    /\ fnCall = NoCall
    /\ fnResult = NoResult

MuxIdle ==
    /\ env = NoEnv
    /\ muxpc = "idle"
    /\ muxArgs = NoMuxArgs
    /\ muxErr = NilErr
    /\ children = <<>>

InitParallel ==
    /\ streams \in StreamLists
    /\ hasProgress \in BOOLEAN
    /\ ctxCancelled \in BOOLEAN
    /\ cancelledAtCall = ctxCancelled
    /\ InitDownloads(Len(streams))
    /\ mainPc = "call"
    /\ results = <<>>
    /\ ret = <<>>
    /\ spawned = 0
    /\ wg = 0
    /\ mu = 0
    /\ progresses = <<>>
    /\ acc = [t \in 1..Len(streams) |-> ZeroProgress]
    /\ snap = [t \in 1..Len(streams) |-> <<>>]
    /\ cbActive = {}
    /\ lastReport = NoReport
    /\ BatchIdle
    /\ OrchIdle
    /\ MuxIdle
    /\ FnIdle

\* len(streams) == 0 -> return nil; else make results and the tracker
ParallelCall ==
    /\ mainPc = "call"
    /\ IF Len(streams) = 0
       THEN /\ mainPc' = "returned"
            /\ ret' = <<>>
            /\ UNCHANGED <<results, progresses>>
       ELSE /\ mainPc' = "spawn"
            /\ results' = [t \in 1..Len(streams) |-> ZeroResult]
            /\ progresses' = IF hasProgress
                             THEN [t \in 1..Len(streams) |-> ZeroProgress]
                             ELSE <<>>
            /\ UNCHANGED ret
    /\ UNCHANGED dlvars
    /\ UNCHANGED <<batchvars, orchvars, progressLog, muxvars, fnvars>>
    /\ UNCHANGED <<hasProgress, cancelledAtCall, streams, spawned, wg, mu,
                   acc, snap, cbActive, lastReport>>

\* one iteration of the range loop: wg.Add(1); go func(idx, s), whose first
\* statements choose streamProgress and call DownloadStream
ParallelSpawn ==
    /\ mainPc = "spawn"
    /\ spawned < Len(streams)
    /\ spawned' = spawned + 1
    /\ wg' = wg + 1
    /\ args' = [args EXCEPT ![spawned + 1] =
           [url      |-> streams[spawned + 1].URL,
            filePath |-> streams[spawned + 1].FilePath,
            progress |-> IF hasProgress THEN "aggregate" ELSE "nil"]]
    /\ tpc' = [tpc EXCEPT ![spawned + 1] = "request"]
    /\ UNCHANGED <<ctxCancelled, terr, remaining, downloaded, files,
                   startedAtCancel>>
    /\ UNCHANGED callvars
    /\ UNCHANGED <<batchvars, orchvars, progressLog, muxvars, fnvars>>
    /\ UNCHANGED <<streams, mu, progresses, acc, snap,
                   cbActive, lastReport>>

WaitDone_NoWait(w) == TRUE

WaitDone(w) == w = 0

\* the range loop is over; wg.Wait(); return results
ParallelWait ==
    /\ mainPc = "spawn"
    /\ spawned = Len(streams)
    /\ WaitDone(wg)
    /\ mainPc' = "returned"
    /\ ret' = results
    /\ UNCHANGED dlvars
    /\ UNCHANGED <<hasProgress, results, cancelledAtCall>>
    /\ UNCHANGED <<batchvars, orchvars, progressLog, muxvars, fnvars>>
    /\ UNCHANGED parvars

\* results[idx] = DownloadResult{s.FilePath, err}; deferred wg.Done()
TaskStore(t) ==
    /\ tpc[t] = "returned"
    /\ results' = [results EXCEPT ![t] =
           [FilePath |-> streams[t].FilePath, Error |-> terr[t]]]
    /\ tpc' = [tpc EXCEPT ![t] = "done"]
    /\ wg' = wg - 1
    /\ UNCHANGED <<ctxCancelled, args, terr, remaining, downloaded, files,
                   startedAtCancel>>
    /\ UNCHANGED <<hasProgress, ret, mainPc, cancelledAtCall>>
    /\ UNCHANGED <<batchvars, orchvars, progressLog, muxvars, fnvars>>
    /\ UNCHANGED <<streams, spawned, mu, progresses, acc,
                   snap, cbActive, lastReport>>

NextParallel ==
    \/ Cancel
    \/ ParallelCall
    \/ ParallelSpawn
    \/ ParallelWait
    \/ \E t \in Tasks : DoRequest(t)
    \/ \E t \in Tasks : CreateFile(t)
    \/ \E t \in Tasks : ReadData(t)
    \/ \E t \in Tasks : WriteData(t)
    \/ \E t \in Tasks : ReadEOF(t)
    \/ \E t \in Tasks : ReadCancelled(t)
    \/ \E t \in Tasks : TrackerLockWrite(t)
    \/ \E t \in Tasks : TrackerSum(t)
    \/ \E t \in Tasks : TrackerUnlock(t)
    \/ \E t \in Tasks : CallbackEnter(t)
    \/ \E t \in Tasks : CallbackReturn(t)
    \/ \E t \in Tasks : TaskStore(t)

SpecParallel == InitParallel /\ [][NextParallel]_vars

\* ------------------------------------------------------------ DownloadBatch
Title(s) == <<"title of", s.URL, s.FilePath>>

BatchItem ==
    { [URL |-> s.URL, FilePath |-> s.FilePath, Title |-> Title(s)] :
         s \in StreamDownload }

ItemLists ==
    UNION { [1..n -> BatchItem] : n \in 0..MaxItems }

InitBatch ==
    /\ items \in ItemLists
    /\ hasProgress \in BOOLEAN
    /\ ctxCancelled \in BOOLEAN
    /\ cancelledAtCall = ctxCancelled
    /\ InitDownloads(Len(items))
    /\ mainPc = "call"
    /\ results = <<>>
    /\ ret = <<>>
    /\ bi = 0
    /\ reports = <<>>
    /\ ParallelIdle
    /\ OrchIdle
    /\ MuxIdle
    /\ FnIdle

\* BatchProgress{CompletedCount, TotalCount, CurrentIndex, CurrentTitle,
\* CurrentProgress} as DownloadBatch builds it for item i
BatchProgress(completed, i, p) ==
    [CompletedCount  |-> completed,
     TotalCount      |-> Len(items),
     CurrentIndex    |-> i,
     CurrentTitle    |-> items[i + 1].Title,
     CurrentProgress |-> p]

Report_UnlessCancelled(b) ==
    IF hasProgress /\ ~ctxCancelled THEN Append(reports, b) ELSE reports

\* if progress != nil { progress(b) }
Report(b) == IF hasProgress THEN Append(reports, b) ELSE reports

\* results := make([]DownloadResult, len(items)); the loop is skipped when
\* there is no item
BatchCall ==
    /\ mainPc = "call"
    /\ results' = [k \in 1..Len(items) |-> ZeroResult]
    /\ IF Len(items) = 0
       THEN /\ mainPc' = "returned"
            /\ ret' = <<>>
       ELSE /\ mainPc' = "start"
            /\ UNCHANGED ret
    /\ UNCHANGED <<hasProgress, cancelledAtCall>>
    /\ UNCHANGED <<dlvars, parvars, batchvars, orchvars, progressLog, muxvars, fnvars>>

\* top of the loop body: the start report of item i
BatchReportStart ==
    /\ mainPc = "start"
    /\ reports' = Report(BatchProgress(bi, bi, ZeroProgress))
    /\ mainPc' = "calldownload"
    /\ UNCHANGED <<hasProgress, results, ret, cancelledAtCall>>
    /\ UNCHANGED <<items, bi>>
    /\ UNCHANGED <<dlvars, parvars, orchvars, progressLog, muxvars, fnvars>>

\* videoProgress is chosen and bd.downloader.DownloadStream is called
BatchCallDownload ==
    /\ mainPc = "calldownload"
    /\ args' = [args EXCEPT ![bi + 1] =
           [url      |-> items[bi + 1].URL,
            filePath |-> items[bi + 1].FilePath,
            progress |-> IF hasProgress THEN "batch" ELSE "nil"]]
    /\ tpc' = [tpc EXCEPT ![bi + 1] = "request"]
    /\ mainPc' = "download"
    /\ UNCHANGED <<ctxCancelled, terr, remaining, downloaded, files,
                   startedAtCancel>>
    /\ UNCHANGED <<hasProgress, results, ret, cancelledAtCall>>
    /\ UNCHANGED <<parvars, batchvars, orchvars, progressLog, muxvars, fnvars>>

\* videoProgress(p), called by progressReader.Read of the current item
BatchVideoProgress(t) ==
    /\ tpc[t] = "batchcallback"
    /\ reports' = Report(BatchProgress(bi, bi,
           [Downloaded |-> downloaded[t],
            Total      |-> Server(args[t].url).contentLength]))
    /\ tpc' = [tpc EXCEPT ![t] = "write"]
    /\ UNCHANGED <<ctxCancelled, args, terr, remaining, downloaded, files,
                   startedAtCancel>>
    /\ UNCHANGED <<items, bi>>
    /\ UNCHANGED <<callvars, parvars, orchvars, progressLog, muxvars, fnvars>>

DownloadReturned_Async(p) == TRUE

\* DownloadStream is a synchronous call: the loop goes on when it returned
DownloadReturned(p) == p = "returned"

\* err := DownloadStream(...); results[i] = DownloadResult{item.FilePath, err}
BatchStore ==
    /\ mainPc = "download"
    /\ DownloadReturned(tpc[bi + 1])
    /\ results' = [results EXCEPT ![bi + 1] =
           [FilePath |-> items[bi + 1].FilePath, Error |-> terr[bi + 1]]]
    /\ mainPc' = "complete"
    /\ UNCHANGED <<hasProgress, ret, cancelledAtCall>>
    /\ UNCHANGED <<dlvars, parvars, batchvars, orchvars, progressLog, muxvars, fnvars>>

CompletedAfter_Same(i) == i

\* CompletedCount of the completion report of item i
CompletedAfter(i) == i + 1

\* the completion report of item i
BatchReportComplete ==
    /\ mainPc = "complete"
    /\ reports' = Report(BatchProgress(CompletedAfter(bi), bi, ZeroProgress))
    /\ mainPc' = "check"
    /\ UNCHANGED <<hasProgress, results, ret, cancelledAtCall>>
    /\ UNCHANGED <<items, bi>>
    /\ UNCHANGED <<dlvars, parvars, orchvars, progressLog, muxvars, fnvars>>

\* if ctx.Err() != nil { mark the items after i; break }; next i; after the
\* loop: return results
BatchCheckCtx ==
    /\ mainPc = "check"
    /\ IF ctxCancelled
       THEN /\ results' = [k \in 1..Len(items) |->
                  IF k > bi + 1
                  THEN [FilePath |-> items[k].FilePath, Error |-> CtxCanceled]
                  ELSE results[k]]
            /\ ret' = results'
            /\ mainPc' = "returned"
            /\ UNCHANGED bi
       ELSE /\ bi' = bi + 1
            /\ IF bi + 1 < Len(items)
               THEN /\ mainPc' = "start"
                    /\ UNCHANGED ret
               ELSE /\ mainPc' = "returned"
                    /\ ret' = results
            /\ UNCHANGED results
    /\ UNCHANGED <<hasProgress, cancelledAtCall>>
    /\ UNCHANGED <<items, reports>>
    /\ UNCHANGED <<dlvars, parvars, orchvars, progressLog, muxvars, fnvars>>

NextBatch ==
    \/ Cancel
    \/ BatchCall
    \/ BatchReportStart
    \/ BatchCallDownload
    \/ \E t \in Tasks : DoRequest(t)
    \/ \E t \in Tasks : CreateFile(t)
    \/ \E t \in Tasks : ReadData(t)
    \/ \E t \in Tasks : BatchVideoProgress(t)
    \/ \E t \in Tasks : WriteData(t)
    \/ \E t \in Tasks : ReadEOF(t)
    \/ \E t \in Tasks : ReadCancelled(t)
    \/ BatchStore
    \/ BatchReportComplete
    \/ BatchCheckCtx

SpecBatch == InitBatch /\ [][NextBatch]_vars

\* ------------------------------------ DownloadStream called in succession
\* A caller that calls DownloadStream up to MaxCalls times, one call after
\* the other, each time with arguments of its choice; its progress callback
\* (when it passes one) records what it receives.
SoloArgs ==
    [url : {"ok3", "ok1", "nolen", "http500"},
     filePath : {"f1", "ro/f5", "new/f6"},
     progress : {"nil", "plain"}]

InitSolo ==
    /\ ctxCancelled \in BOOLEAN
    /\ cancelledAtCall = ctxCancelled
    /\ InitDownloads(MaxCalls)
    /\ hasProgress = FALSE
    /\ results = <<>>
    /\ ret = <<>>
    /\ mainPc = "call"
    /\ ParallelIdle
    /\ BatchIdle
    /\ OrchIdle
    /\ MuxIdle
    /\ FnIdle

\* the call in progress, or the next one to make: calls are made in the
\* order of the task numbers
CurrentCall == Cardinality({t \in Tasks : tpc[t] = "done"}) + 1

SoloCall ==
    /\ mainPc = "call"
    /\ \E a \in SoloArgs : args' = [args EXCEPT ![CurrentCall] = a]
    /\ tpc' = [tpc EXCEPT ![CurrentCall] = "request"]
    /\ mainPc' = "download"
    /\ UNCHANGED <<ctxCancelled, terr, remaining, downloaded, files,
                   startedAtCancel>>
    /\ UNCHANGED <<hasProgress, results, ret, cancelledAtCall>>
    /\ UNCHANGED <<parvars, batchvars, orchvars, progressLog, muxvars, fnvars>>

\* Progress.Percentage, rounded towards zero
Percentage(p) ==
    IF p.Total = 0 THEN 0
    ELSE IF p.Total < 0 THEN 0 - ((p.Downloaded * 100) \div (0 - p.Total))
    ELSE (p.Downloaded * 100) \div p.Total

ProgressValue_NoTotal(d, total) == [Downloaded |-> d, Total |-> 0]

\* Progress{Downloaded: pr.downloaded, Total: pr.total}
ProgressValue(d, total) == [Downloaded |-> d, Total |-> total]

\* pr.callback(Progress{...}) with a callback that records its argument
PlainCallback(t) ==
    /\ tpc[t] = "plaincallback"
    /\ progressLog' = [progressLog EXCEPT ![t] =
           Append(@, ProgressValue(downloaded[t],
                                   Server(args[t].url).contentLength))]
    /\ tpc' = [tpc EXCEPT ![t] = "write"]
    /\ UNCHANGED <<ctxCancelled, args, terr, remaining, downloaded, files,
                   startedAtCancel>>
    /\ UNCHANGED <<callvars, parvars, batchvars, orchvars, muxvars, fnvars>>

\* DownloadStream has returned to the caller
SoloReturn ==
    /\ mainPc = "download"
    /\ tpc[CurrentCall] = "returned"
    /\ tpc' = [tpc EXCEPT ![CurrentCall] = "done"]
    /\ mainPc' = IF CurrentCall < MaxCalls THEN "call" ELSE "returned"
    /\ UNCHANGED <<ctxCancelled, args, terr, remaining, downloaded, files,
                   startedAtCancel>>
    /\ UNCHANGED <<hasProgress, results, ret, cancelledAtCall>>
    /\ UNCHANGED <<parvars, batchvars, orchvars, progressLog, muxvars, fnvars>>

NextSolo ==
    \/ Cancel
    \/ SoloCall
    \/ SoloReturn
    \/ \E t \in Tasks : DoRequest(t)
    \/ \E t \in Tasks : CreateFile(t)
    \/ \E t \in Tasks : ReadData(t)
    \/ \E t \in Tasks : PlainCallback(t)
    \/ \E t \in Tasks : WriteData(t)
    \/ \E t \in Tasks : ReadEOF(t)
    \/ \E t \in Tasks : ReadCancelled(t)

SpecSolo == InitSolo /\ [][NextSolo]_vars

\* ------------------------------------------------ MuxStreamsWithContext
ErrNotFound   == "ffmpeg not found"
ErrMuxFailed  == "ffmpeg mux failed"

\* addPath of probeDirectoryPaths: empty and already seen entries are skipped
AddPath(paths, p) ==
    IF p # "" /\ \A k \in 1..Len(paths) : paths[k] # p
    THEN Append(paths, p) ELSE paths

RECURSIVE AddPaths(_, _)
AddPaths(paths, ps) ==
    IF ps = <<>> THEN paths
    ELSE AddPaths(AddPath(paths, Head(ps)), Tail(ps))

\* probeDirectoryPaths: working directory, executable's directory, then the
\* entries of PATH (e.path is PATH already split on the separator)
ProbeDirectoryPaths(e) == AddPaths(<<>>, <<e.wd, e.exeDir>> \o e.path)

NoPath == <<"nil">>

\* filepath.Join(dir, cliFileName())
CliFileIn(dir) == <<dir, "ffmpeg">>

\* TryGetCliFilePath: the first probed directory that holds the executable
TryGetCliFilePath(e) ==
    LET dirs == ProbeDirectoryPaths(e)
        hits == {k \in 1..Len(dirs) : dirs[k] \in e.ffmpegIn}
    IN IF hits = {} THEN NoPath
       ELSE CliFileIn(dirs[CHOOSE k \in hits : \A j \in hits : k <= j])

CliNotFound_Unchecked(path) == FALSE

\* GetCliFilePath: path == nil -> ErrNotFound
CliNotFound(path) == path = NoPath

\* buildMuxArgs
BuildMuxArgs(videoPath, audioPath, outputPath) ==
    <<"-i", videoPath, "-i", audioPath, "-c", "copy", "-y", outputPath>>

Directories == {"cwd", "bin", "usr"}

Environments ==
    [wd : {"cwd"}, exeDir : {"cwd", "bin"},
     path : {<<>>, <<"bin">>, <<"usr">>, <<"", "usr">>, <<"bin", "usr">>,
             <<"usr", "bin", "usr">>},
     ffmpegIn : SUBSET Directories]

MuxCalls ==
    [videoPath : {"tmp/video.mp4"}, audioPath : {"tmp/audio.mp4"},
     outputPath : {"out/title.mp4"}]

\* A caller of MuxStreamsWithContext; the input files may or may not exist
InitMux ==
    /\ env \in Environments
    /\ muxArgs \in MuxCalls
    /\ muxpc = "lookup"
    /\ muxErr = NilErr
    /\ children = <<>>
    /\ ctxCancelled \in BOOLEAN
    /\ cancelledAtCall = ctxCancelled
    /\ startedAtCancel = {}
    /\ args = <<>>
    /\ tpc = <<>>
    /\ terr = <<>>
    /\ remaining = <<>>
    /\ downloaded = <<>>
    /\ progressLog = <<>>
    /\ \E v \in {NoFile, <<"ok2", "ok2">>}, a \in {NoFile, <<"ok1">>},
          o \in {NoFile, <<"old">>} :
          files = [p \in AllPaths |->
                     CASE p = muxArgs.videoPath  -> v
                       [] p = muxArgs.audioPath  -> a
                       [] p = muxArgs.outputPath -> o
                       [] OTHER -> NoFile]
    /\ hasProgress = FALSE
    /\ results = <<>>
    /\ ret = <<>>
    /\ mainPc = "idle"
    /\ ParallelIdle
    /\ BatchIdle
    /\ OrchIdle
    /\ FnIdle

MuxFrame ==
    UNCHANGED <<ctxCancelled, args, tpc, terr, remaining, downloaded,
                startedAtCancel, callvars, parvars, batchvars, orchvars,
                progressLog, env, muxArgs, fnvars>>

\* ffmpegPath, err := GetCliFilePath(); if err != nil { return err }
MuxLookup ==
    /\ muxpc = "lookup"
    /\ IF CliNotFound(TryGetCliFilePath(env))
       THEN /\ muxErr' = ErrNotFound
            /\ muxpc' = "returned"
       ELSE /\ muxpc' = "start"
            /\ UNCHANGED muxErr
    /\ UNCHANGED <<files, children>>
    /\ MuxFrame

\* exec.CommandContext(ctx, ffmpegPath, args...); cmd.Run() starts the
\* child, unless ctx is already done
MuxStart ==
    /\ muxpc = "start"
    /\ IF ctxCancelled
       THEN /\ muxErr' = ErrMuxFailed
            /\ muxpc' = "returned"
            /\ UNCHANGED children
       ELSE /\ children' = Append(children,
                  [exe  |-> TryGetCliFilePath(env),
                   argv |-> BuildMuxArgs(muxArgs.videoPath, muxArgs.audioPath,
                                         muxArgs.outputPath)])
            /\ muxpc' = "running"
            /\ UNCHANGED muxErr
    /\ UNCHANGED files
    /\ MuxFrame

\* the child exits with status 0 after writing the output file (-y
\* overwrites); cmd.Run returns nil
MuxChildSucceeds ==
    /\ muxpc = "running"
    /\ files[muxArgs.videoPath] # NoFile
    /\ files[muxArgs.audioPath] # NoFile
    /\ files' = [files EXCEPT ![muxArgs.outputPath] =
                    files[muxArgs.videoPath] \o files[muxArgs.audioPath]]
    /\ muxErr' = NilErr
    /\ muxpc' = "returned"
    /\ UNCHANGED children
    /\ MuxFrame

\* the child exits with a non-zero status (always so when an input is
\* missing), or is killed because ctx was cancelled; cmd.Run returns an error
MuxChildFails ==
    /\ muxpc = "running"
    /\ muxErr' = ErrMuxFailed
    /\ muxpc' = "returned"
    /\ UNCHANGED <<files, children>>
    /\ MuxFrame

NextMux ==
    \/ Cancel
    \/ MuxLookup
    \/ MuxStart
    \/ MuxChildSucceeds
    \/ MuxChildFails

SpecMux == InitMux /\ [][NextMux]_vars

\* --------------------------------------------- pkg/youtube: stream.go
\* VideoQualityPreference
QualityLowest    == "Lowest quality"
QualityUpTo360p  == "<= 360p"
QualityUpTo480p  == "<= 480p"
QualityUpTo720p  == "<= 720p"
QualityUpTo1080p == "<= 1080p"
QualityHighest   == "Highest quality"
Qualities ==
    {QualityLowest, QualityUpTo360p, QualityUpTo480p, QualityUpTo720p,
     QualityUpTo1080p, QualityHighest}

\* VideoQualityPreference.MaxHeight
MaxHeight(quality) ==
    CASE quality = QualityUpTo360p  -> 360
      [] quality = QualityUpTo480p  -> 480
      [] quality = QualityUpTo720p  -> 720
      [] quality = QualityUpTo1080p -> 1080
      [] OTHER -> 0

\* minHeight := videoOptions[0].VideoStream.Height; for ... if < minHeight
RECURSIVE MinHeightFrom(_, _, _)
MinHeightFrom(os, k, m) ==
    IF k > Len(os) THEN m
    ELSE MinHeightFrom(os, k + 1,
            IF os[k].VideoStream.Height < m THEN os[k].VideoStream.Height
            ELSE m)

\* maxHeightFound := 0; for ... if > maxHeightFound
RECURSIVE MaxHeightFrom(_, _, _)
MaxHeightFrom(os, k, m) ==
    IF k > Len(os) THEN m
    ELSE MaxHeightFrom(os, k + 1,
            IF os[k].VideoStream.Height > m THEN os[k].VideoStream.Height
            ELSE m)

\* the options of os whose height is h, in order
WithHeight(os, h) ==
    LET Test(o) == o.VideoStream.Height = h IN SelectSeq(os, Test)

VideoOptions_AudioOnlyToo(os) ==
    LET Test(o) == o.VideoStream # NilStream IN SelectSeq(os, Test)

\* the options of os that are not audio-only and have a video stream
VideoOptions(os) ==
    LET Test(o) == ~o.IsAudioOnly /\ o.VideoStream # NilStream
    IN SelectSeq(os, Test)

WithinLimit_Strict(os, maxHeight) ==
    LET Test(o) == o.VideoStream.Height < maxHeight IN SelectSeq(os, Test)

\* the options of os with Height <= maxHeight, in order
WithinLimit(os, maxHeight) ==
    LET Test(o) == o.VideoStream.Height <= maxHeight IN SelectSeq(os, Test)

\* the quality filter of SelectBestOption (the switch on quality), applied
\* to a non-empty list of video options
FilterByQuality(videoOptions, quality) ==
    CASE quality = QualityLowest ->
            WithHeight(videoOptions,
                MinHeightFrom(videoOptions, 1,
                              videoOptions[1].VideoStream.Height))
      [] quality = QualityHighest ->
            WithHeight(videoOptions, MaxHeightFrom(videoOptions, 1, 0))
      [] OTHER ->
            LET withinLimit == WithinLimit(videoOptions, MaxHeight(quality))
            IN IF Len(withinLimit) = 0
               THEN WithHeight(videoOptions,
                        MinHeightFrom(videoOptions, 1,
                                      videoOptions[1].VideoStream.Height))
               ELSE WithHeight(withinLimit, MaxHeightFrom(withinLimit, 1, 0))

PreferContainer_First(filteredOptions, preferredContainer) ==
    filteredOptions[1]

\* the tail of SelectBestOption: the first option in the preferred
\* container, else the first option
PreferContainer(filteredOptions, preferredContainer) ==
    LET hits == {k \in 1..Len(filteredOptions) :
                    filteredOptions[k].Container = preferredContainer}
    IN IF hits = {} THEN filteredOptions[1]
       ELSE filteredOptions[CHOOSE k \in hits : \A j \in hits : k <= j]

\* SelectBestOption
SelectBestOption(options, quality, preferredContainer) ==
    IF Len(options) = 0 THEN NilOption
    ELSE LET videoOptions == VideoOptions(options)
         IN IF Len(videoOptions) = 0 THEN NilOption
            ELSE LET filteredOptions == FilterByQuality(videoOptions, quality)
                 IN IF Len(filteredOptions) = 0 THEN NilOption
                    ELSE PreferContainer(filteredOptions, preferredContainer)

\* ---- SelectBestOption called on its own
VideoStreamInfo(url, height, container) ==
    [URL |-> url, Height |-> height, Container |-> container]

AudioStreamInfo(url, bitrate, container) ==
    [URL |-> url, Bitrate |-> bitrate, Container |-> container]

DownloadOption(container, isAudioOnly, videoStream, audioStream) ==
    [Container |-> container, IsAudioOnly |-> isAudioOnly,
     VideoStream |-> videoStream, AudioStream |-> audioStream]

MuxedStreamInfo(url, height, container) ==
    [VideoStreamInfo |-> VideoStreamInfo(url, height, container),
     AudioStreamInfo |-> AudioStreamInfo(url, 96, container)]

\* the first of the streams numbered in hits with the greatest bitrate
\* (best is replaced only by a greater bitrate), nil when hits is empty
BestByBitrate(audioStreams, hits) ==
    IF hits = {} THEN NilStream
    ELSE audioStreams[CHOOSE k \in hits : \A j \in hits :
             \/ audioStreams[k].Bitrate > audioStreams[j].Bitrate
             \/ (audioStreams[k].Bitrate = audioStreams[j].Bitrate /\ k <= j)]

\* StreamManifest.GetBestAudioStream
GetBestAudioStream(m) ==
    BestByBitrate(m.AudioStreams, 1..Len(m.AudioStreams))

\* StreamManifest.findBestAudioByContainer
FindBestAudioByContainer(m, container) ==
    BestByBitrate(m.AudioStreams,
        {k \in 1..Len(m.AudioStreams) :
            m.AudioStreams[k].Container = container})

CompatibleAudio_AnyContainer(m, vs) == GetBestAudioStream(m)

\* GetDownloadOptions: the audio stream paired with the video stream vs
CompatibleAudio(m, vs) ==
    CASE vs.Container = "mp4"
            /\ FindBestAudioByContainer(m, "mp4") # NilStream ->
            FindBestAudioByContainer(m, "mp4")
      [] vs.Container = "webm"
            /\ FindBestAudioByContainer(m, "webm") # NilStream ->
            FindBestAudioByContainer(m, "webm")
      [] OTHER -> GetBestAudioStream(m)

GetDownloadOptions_NoMuxed(m) ==
    [k \in 1..Len(m.VideoStreams) |->
        DownloadOption(m.VideoStreams[k].Container, FALSE, m.VideoStreams[k],
                       CompatibleAudio(m, m.VideoStreams[k]))]
    \o [k \in 1..Len(m.AudioStreams) |->
        DownloadOption(m.AudioStreams[k].Container, TRUE, NilStream,
                       m.AudioStreams[k])]

\* StreamManifest.GetDownloadOptions: an option per video stream, then one
\* per muxed stream, then one per audio stream
GetDownloadOptions(m) ==
    [k \in 1..Len(m.VideoStreams) |->
        DownloadOption(m.VideoStreams[k].Container, FALSE, m.VideoStreams[k],
                       CompatibleAudio(m, m.VideoStreams[k]))]
    \o [k \in 1..Len(m.MuxedStreams) |->
        DownloadOption(m.MuxedStreams[k].VideoStreamInfo.Container, FALSE,
                       m.MuxedStreams[k].VideoStreamInfo,
                       m.MuxedStreams[k].AudioStreamInfo)]
    \o [k \in 1..Len(m.AudioStreams) |->
        DownloadOption(m.AudioStreams[k].Container, TRUE, NilStream,
                       m.AudioStreams[k])]

Heights == {360, 720, 1080, 2160}

SampleOptions ==
    { DownloadOption(c, FALSE, VideoStreamInfo("ok1", h, c), NilStream) :
         h \in Heights, c \in {"mp4", "webm"} }
    \cup { DownloadOption("mp4", TRUE, NilStream,
                          AudioStreamInfo("ok1", 128, "mp4")),
           DownloadOption("mp4", FALSE, NilStream,
                          AudioStreamInfo("ok1", 128, "mp4")),
           DownloadOption("mp4", TRUE, VideoStreamInfo("ok1", 2160, "mp4"),
                          AudioStreamInfo("ok1", 128, "mp4")) }

InitSelect ==
    /\ fnCall \in
          [fn : {"SelectBestOption"},
           options : UNION { [1..n -> SampleOptions] : n \in 0..MaxOptions },
           quality : Qualities,
           preferredContainer : {"mp4", "webm", "mp3"}]
    /\ fnResult = NoResult
    /\ ctxCancelled = FALSE
    /\ cancelledAtCall = FALSE
    /\ InitDownloads(0)
    /\ hasProgress = FALSE
    /\ results = <<>>
    /\ ret = <<>>
    /\ mainPc = "idle"
    /\ ParallelIdle
    /\ BatchIdle
    /\ OrchIdle
    /\ MuxIdle

FnFrame ==
    UNCHANGED <<dlvars, callvars, parvars, batchvars, orchvars, progressLog,
                muxvars, fnCall>>

CallSelectBestOption ==
    /\ fnCall.fn = "SelectBestOption"
    /\ fnResult = NoResult
    /\ fnResult' = [option |-> SelectBestOption(fnCall.options, fnCall.quality,
                                                fnCall.preferredContainer)]
    /\ FnFrame

NextSelect == CallSelectBestOption

SpecSelect == InitSelect /\ [][NextSelect]_vars

\* ------------------------------------------------- strings and net/url
\* A string is the sequence of its characters.
UpperCase ==
    <<"A", "B", "C", "D", "E", "F", "G", "H", "I", "J", "K", "L",
      "M", "N", "O", "P", "Q", "R", "S", "T", "U", "V", "W", "X",
      "Y", "Z">>
LowerCase ==
    <<"a", "b", "c", "d", "e", "f", "g", "h", "i", "j", "k", "l",
      "m", "n", "o", "p", "q", "r", "s", "t", "u", "v", "w", "x",
      "y", "z">>

\* strings.ToLower, one character
LowerChar(c) ==
    IF \E k \in 1..Len(UpperCase) : UpperCase[k] = c
    THEN LowerCase[CHOOSE k \in 1..Len(UpperCase) : UpperCase[k] = c]
    ELSE c

\* strings.ToLower
ToLower(str) == [k \in 1..Len(str) |-> LowerChar(str[k])]

\* strings.HasPrefix
HasPrefix(str, prefix) ==
    Len(str) >= Len(prefix) /\ SubSeq(str, 1, Len(prefix)) = prefix

\* strings.TrimPrefix
TrimPrefix(str, prefix) ==
    IF HasPrefix(str, prefix) THEN SubSeq(str, Len(prefix) + 1, Len(str))
    ELSE str

\* strings.TrimSuffix
TrimSuffix(str, suffix) ==
    IF /\ Len(str) >= Len(suffix)
       /\ SubSeq(str, Len(str) - Len(suffix) + 1, Len(str)) = suffix
    THEN SubSeq(str, 1, Len(str) - Len(suffix))
    ELSE str

\* strings.IndexAny, counted from 1; 0 when no character of chars occurs
IndexAny(str, chars) ==
    LET hits == {k \in 1..Len(str) : str[k] \in chars}
    IN IF hits = {} THEN 0 ELSE CHOOSE k \in hits : \A j \in hits : k <= j

\* str[:idx] and str[idx+1:] for the index k counted from 1
Before(str, k) == SubSeq(str, 1, k - 1)
After(str, k) == SubSeq(str, k + 1, Len(str))

\* strings.TrimSpace
TrimSpace(str) ==
    LET solid == {k \in 1..Len(str) : str[k] # " "}
    IN IF solid = {} THEN <<>>
       ELSE SubSeq(str, CHOOSE k \in solid : \A j \in solid : k <= j,
                        CHOOSE k \in solid : \A j \in solid : j <= k)

Letters == {UpperCase[k] : k \in 1..Len(UpperCase)}
              \cup {LowerCase[k] : k \in 1..Len(LowerCase)}
Digits == {"0", "1", "2", "3", "4", "5", "6", "7", "8", "9"}

\* net/url getScheme: the length of the scheme of rawURL, 0 when it has none
SchemeLen(rawURL) ==
    LET stop == {k \in 1..Len(rawURL) :
                    \/ rawURL[k] \notin Letters \cup Digits \cup {"+", "-", "."}
                    \/ (k = 1 /\ rawURL[k] \notin Letters)}
        first == IF stop = {} THEN 0
                 ELSE CHOOSE k \in stop : \A j \in stop : k <= j
    IN IF first > 1 /\ rawURL[first] = ":" THEN first - 1 ELSE 0

BadURL == [ok |-> FALSE, Host |-> <<>>, Path |-> <<>>, RawQuery |-> <<>>]

\* the authority auth (what follows "//") ends at the first "/", at sl
SplitAuthority(auth, sl, rawq) ==
    [ok |-> TRUE,
     Host |-> IF sl = 0 THEN auth ELSE Before(auth, sl),
     Path |-> IF sl = 0 THEN <<>> ELSE SubSeq(auth, sl, Len(auth)),
     RawQuery |-> rawq]

\* the first path segment of rest, which ends at sl
FirstSegment(rest, sl) == IF sl = 0 THEN rest ELSE Before(rest, sl)

\* net/url parse, after the scheme (of length n) and the query are cut off
ParseHier(n, rest, rawq) ==
    IF ~HasPrefix(rest, <<"/">>) /\ n > 0 THEN
        [ok |-> TRUE, Host |-> <<>>, Path |-> <<>>, RawQuery |-> rawq]
    ELSE IF /\ ~HasPrefix(rest, <<"/">>)
            /\ IndexAny(FirstSegment(rest, IndexAny(rest, {"/"})), {":"}) # 0
    THEN BadURL
    ELSE IF HasPrefix(rest, <<"/", "/">>)
            /\ (n > 0 \/ ~HasPrefix(rest, <<"/", "/", "/">>)) THEN
        SplitAuthority(SubSeq(rest, 3, Len(rest)),
                       IndexAny(SubSeq(rest, 3, Len(rest)), {"/"}), rawq)
    ELSE [ok |-> TRUE, Host |-> <<>>, Path |-> rest, RawQuery |-> rawq]

\* rest, url.RawQuery, _ = strings.Cut(rest, "?"), the "?" being at q
CutQuery(n, rest0, q) ==
    ParseHier(n, IF q = 0 THEN rest0 ELSE Before(rest0, q),
                 IF q = 0 THEN <<>> ELSE After(rest0, q))

\* the scheme of rawURL has length n (0: none)
AfterScheme(n, rawURL) ==
    IF n > 0 THEN SubSeq(rawURL, n + 2, Len(rawURL)) ELSE rawURL

ParseFrom(n, rest0) == CutQuery(n, rest0, IndexAny(rest0, {"?"}))

\* net/url Parse for URLs without fragment, user info or escapes: Host,
\* Path and RawQuery; ok is FALSE where Parse returns an error
ParseURL(rawURL) ==
    IF Len(rawURL) > 0 /\ rawURL[1] = ":" THEN BadURL
    ELSE ParseFrom(SchemeLen(rawURL), AfterScheme(SchemeLen(rawURL), rawURL))

\* key and value of one key=value pair, the "=" being at eq
PairKey(pair, eq) == IF eq = 0 THEN pair ELSE Before(pair, eq)
PairValue(pair, eq) == IF eq = 0 THEN <<>> ELSE After(pair, eq)

\* the first pair of rawQuery and what follows it, the "&" being at amp
FirstPair(rawQuery, amp) == IF amp = 0 THEN rawQuery ELSE Before(rawQuery, amp)
OtherPairs(rawQuery, amp) == IF amp = 0 THEN <<>> ELSE After(rawQuery, amp)

\* url.Values.Get on URL.Query(): the value of the first key=value pair of
\* the query with that key, "" when there is none
RECURSIVE QueryGet(_, _)
RECURSIVE QueryGetPair(_, _, _)
QueryGetPair(pair, rest, key) ==
    IF pair # <<>> /\ PairKey(pair, IndexAny(pair, {"="})) = key
    THEN PairValue(pair, IndexAny(pair, {"="}))
    ELSE QueryGet(rest, key)

QueryGet(rawQuery, key) ==
    IF rawQuery = <<>> THEN <<>>
    ELSE QueryGetPair(FirstPair(rawQuery, IndexAny(rawQuery, {"&"})),
                      OtherPairs(rawQuery, IndexAny(rawQuery, {"&"})), key)

\* ------------------------------------------------------ identifiers
\* An identifier is the sequence of its characters.
IDChars ==
    {"a","b","c","d","e","f","g","h","i","j","k","l","m","n","o","p","q","r",
     "s","t","u","v","w","x","y","z","A","B","C","D","E","F","G","H","I","J",
     "K","L","M","N","O","P","Q","R","S","T","U","V","W","X","Y","Z","0","1",
     "2","3","4","5","6","7","8","9","_","-"}

VideoIDLen == 11
PlaylistBodyLen == 32
ChannelIDBodyLen == 22

\* videoIDRegex ^[a-zA-Z0-9_-]{11}$
IsValidVideoID(id) ==
    /\ Len(id) = VideoIDLen
    /\ \A k \in 1..Len(id) : id[k] \in IDChars

\* channelIDRegex ^UC[a-zA-Z0-9_-]{22}$
IsValidChannelID(id) ==
    /\ Len(id) = 2 + ChannelIDBodyLen
    /\ id[1] = "U"
    /\ id[2] = "C"
    /\ \A k \in 3..Len(id) : id[k] \in IDChars

ChannelToUploadsPlaylistID_Unchanged(channelID) == channelID

\* "UU" + channelID[2:], or "" for an invalid channel ID
ChannelToUploadsPlaylistID(channelID) ==
    IF ~IsValidChannelID(channelID) THEN <<>>
    ELSE <<"U", "U">> \o SubSeq(channelID, 3, Len(channelID))

\* ChannelIdentifier.UploadsPlaylistID
UploadsPlaylistID(ci) ==
    IF ci.Type # "id" THEN <<>> ELSE ChannelToUploadsPlaylistID(ci.Value)

\* ------------------------------------------------------ runDownloadWithDeps
ErrInvalidURL      == "invalid URL or ID: unresolvable query"
ErrSearch          == "search queries are not supported for download"
ErrUnsupported     == "unsupported content type"
ErrPlaylist        ==
    "playlist download requires fetching playlist page - not yet implemented"
ErrChannel         ==
    "channel download requires resolving channel ID - not yet implemented"
ErrFetch           == "failed to fetch video page"

VideoIDs ==
    { v \in { Repeat("a", VideoIDLen),
              <<"d","Q","w","4","w","9","W","g","X","c","Q">> } :
         IsValidVideoID(v) }

ChannelIDs ==
    { c \in { <<"U", "C">> \o Repeat("x", ChannelIDBodyLen),
              <<"U", "C">> \o Repeat("-", ChannelIDBodyLen),
              <<"U", "C", "U", "C">> \o Repeat("7", ChannelIDBodyLen - 2) } :
         IsValidChannelID(c) }

PlaylistIDs ==
    { <<"P", "L">> \o Repeat("q", 32), <<"W", "L">>,
      <<"U", "U">> \o Repeat("x", ChannelIDBodyLen) }

\* The values youtube.ResolveQuery returns without an error
ResolvedQueries ==
    { [NoQuery EXCEPT !.Type = "video", !.VideoID = v] : v \in VideoIDs }
    \cup { [NoQuery EXCEPT !.Type = "video", !.VideoID = v, !.PlaylistID = l] :
              v \in VideoIDs, l \in PlaylistIDs }
    \cup { [NoQuery EXCEPT !.Type = "playlist", !.PlaylistID = l] :
              l \in PlaylistIDs }
    \cup { [NoQuery EXCEPT !.Type = "channel",
                           !.Channel = [Type |-> "id", Value |-> c]] :
              c \in ChannelIDs }
    \cup { [NoQuery EXCEPT !.Type = "channel",
                           !.Channel = [Type |-> k, Value |-> n]] :
              k \in {"handle", "custom", "user"},
              n \in {<<"M","r","B">>, <<"U","C">> \o Repeat("x", ChannelIDBodyLen)} }
    \cup { [NoQuery EXCEPT !.Type = "search", !.SearchQuery = q] :
              q \in {<<"c","a","t","s">>, Repeat("a", VideoIDLen)} }

\* ---------------------------------------- videoid.go, playlistid.go
HostYoutube ==
    <<"y", "o", "u", "t", "u", "b", "e", ".", "c", "o", "m">>
HostWww ==
    <<"w", "w", "w", ".", "y", "o", "u", "t", "u", "b", "e", ".",
      "c", "o", "m">>
HostMobile ==
    <<"m", ".", "y", "o", "u", "t", "u", "b", "e", ".", "c", "o", "m">>
HostShort ==
    <<"y", "o", "u", "t", "u", ".", "b", "e">>

\* isYouTubeHost
IsYouTubeHost(host) ==
    ToLower(host) \in {HostYoutube, HostWww, HostMobile, HostShort}

\* playlistIDRegex
IsValidPlaylistID(id) ==
    LET body(n) == SubSeq(id, n + 1, Len(id))
        plain(str) == \A k \in 1..Len(str) : str[k] \in IDChars
    IN \/ HasPrefix(id, <<"P", "L">>) /\ Len(id) = 2 + PlaylistBodyLen
                                      /\ plain(body(2))
       \/ id \in {<<"W", "L">>, <<"L", "L">>, <<"L", "M">>}
       \/ /\ \E pre \in {<<"R", "D">>, <<"O", "L">>, <<"U", "U">>,
                         <<"F", "L">>} : HasPrefix(id, pre)
          /\ Len(id) > 2
          /\ plain(body(2))

\* isYouTubeWatchURL
IsYouTubeWatchURL(u) ==
    /\ ToLower(u.Host) \in {HostYoutube, HostWww, HostMobile}
    /\ u.Path = <<"/", "w", "a", "t", "c", "h">>
    /\ QueryGet(u.RawQuery, <<"v">>) # <<>>

\* isYouTubeShortURL
IsYouTubeShortURL(u) == ToLower(u.Host) = HostShort /\ Len(u.Path) > 1

\* isYouTubeEmbedURL
IsYouTubeEmbedURL(u) ==
    /\ ToLower(u.Host) \in {HostYoutube, HostWww}
    /\ HasPrefix(u.Path, <<"/", "e", "m", "b", "e", "d", "/">>)

\* isYouTubeVURL
IsYouTubeVURL(u) ==
    /\ ToLower(u.Host) \in {HostYoutube, HostWww}
    /\ HasPrefix(u.Path, <<"/", "v", "/">>)

\* extractPathID
CutAt(id, idx) == IF idx # 0 THEN Before(id, idx) ELSE id

ExtractPathID(path, prefix) ==
    CutAt(TrimPrefix(path, prefix),
          IndexAny(TrimPrefix(path, prefix), {"?", "/"}))

\* ParseVideoID: the switch over the URL shapes
VideoIDOfURL(u) ==
    CASE IsYouTubeWatchURL(u) -> QueryGet(u.RawQuery, <<"v">>)
      [] IsYouTubeShortURL(u) -> TrimPrefix(u.Path, <<"/">>)
      [] IsYouTubeEmbedURL(u) ->
            ExtractPathID(u.Path, <<"/", "e", "m", "b", "e", "d", "/">>)
      [] IsYouTubeVURL(u) -> ExtractPathID(u.Path, <<"/", "v", "/">>)
      [] OTHER -> <<>>

\* ParseVideoID: validate the extracted ID
ValidVideoIDOrNone(videoID) ==
    IF IsValidVideoID(videoID) THEN videoID ELSE <<>>

ParseVideoIDFromURL(u) ==
    IF ~u.ok THEN <<>> ELSE ValidVideoIDOrNone(VideoIDOfURL(u))

ParseVideoIDTrimmed(input) ==
    IF input = <<>> THEN <<>>
    ELSE IF IsValidVideoID(input) THEN input
    ELSE ParseVideoIDFromURL(ParseURL(input))

\* ParseVideoID; the empty string stands for ErrInvalidVideoID
ParseVideoID(input) == ParseVideoIDTrimmed(TrimSpace(input))

ValidPlaylistIDOrNone(playlistID) ==
    IF playlistID = <<>> THEN <<>>
    ELSE IF ~IsValidPlaylistID(playlistID) THEN <<>>
    ELSE playlistID

ParsePlaylistIDFromURL(u) ==
    IF ~u.ok THEN <<>>
    ELSE IF ~IsYouTubeHost(u.Host) THEN <<>>
    ELSE ValidPlaylistIDOrNone(QueryGet(u.RawQuery, <<"l", "i", "s", "t">>))

ParsePlaylistIDTrimmed(input) ==
    IF input = <<>> THEN <<>>
    ELSE IF IsValidPlaylistID(input) THEN input
    ELSE ParsePlaylistIDFromURL(ParseURL(input))

\* ParsePlaylistID; the empty string stands for ErrInvalidPlaylistID
ParsePlaylistID(input) == ParsePlaylistIDTrimmed(TrimSpace(input))

NoChannel == [Type |-> "", Value |-> <<>>]

\* extractFirstPathSegment
ExtractFirstPathSegment(path) == CutAt(path, IndexAny(path, {"/"}))

\* a channel named by the first path segment after the prefix
NamedChannel(kind, name) ==
    IF name # <<>> THEN [Type |-> kind, Value |-> name] ELSE NoChannel

ChannelByID(channelID) ==
    IF IsValidChannelID(channelID) THEN [Type |-> "id", Value |-> channelID]
    ELSE NoChannel

\* ParseChannelIdentifier: the chain of path prefixes
ChannelOfPath(path) ==
    IF HasPrefix(path, <<"/", "c", "h", "a", "n", "n", "e", "l", "/">>)
    THEN ChannelByID(ExtractFirstPathSegment(
             TrimPrefix(path, <<"/", "c", "h", "a", "n", "n", "e", "l", "/">>)))
    ELSE IF HasPrefix(path, <<"/", "@">>)
    THEN NamedChannel("handle",
             ExtractFirstPathSegment(TrimPrefix(path, <<"/", "@">>)))
    ELSE IF HasPrefix(path, <<"/", "c", "/">>)
    THEN NamedChannel("custom",
             ExtractFirstPathSegment(TrimPrefix(path, <<"/", "c", "/">>)))
    ELSE IF HasPrefix(path, <<"/", "u", "s", "e", "r", "/">>)
    THEN NamedChannel("user",
             ExtractFirstPathSegment(
                 TrimPrefix(path, <<"/", "u", "s", "e", "r", "/">>)))
    ELSE NoChannel

ParseChannelFromURL(u) ==
    IF ~u.ok THEN NoChannel
    ELSE IF ~IsYouTubeHost(u.Host) THEN NoChannel
    ELSE ChannelOfPath(TrimSuffix(u.Path, <<"/">>))

ParseChannelTrimmed(input) ==
    IF input = <<>> THEN NoChannel
    ELSE IF IsValidChannelID(input) THEN [Type |-> "id", Value |-> input]
    ELSE ParseChannelFromURL(ParseURL(input))

\* ParseChannelIdentifier; NoChannel stands for ErrInvalidChannelID
ParseChannelIdentifier(input) == ParseChannelTrimmed(TrimSpace(input))

KeepPlaylist_Always(playlistID) == TRUE

\* ResolveQuery: if IsValidPlaylistID(playlistID) { result.PlaylistID = ... }
KeepPlaylist(playlistID) == IsValidPlaylistID(playlistID)

FirstParsed_PlaylistFirst(videoID, playlistID, channel) ==
    IF playlistID # <<>>
    THEN [NoQuery EXCEPT !.Type = "playlist", !.PlaylistID = playlistID]
    ELSE IF videoID # <<>>
    THEN [NoQuery EXCEPT !.Type = "video", !.VideoID = videoID]
    ELSE IF channel # NoChannel
    THEN [NoQuery EXCEPT !.Type = "channel", !.Channel = channel]
    ELSE NoQuery

\* ResolveQuery: video, then playlist, then channel
FirstParsed(videoID, playlistID, channel) ==
    IF videoID # <<>>
    THEN [NoQuery EXCEPT !.Type = "video", !.VideoID = videoID]
    ELSE IF playlistID # <<>>
    THEN [NoQuery EXCEPT !.Type = "playlist", !.PlaylistID = playlistID]
    ELSE IF channel # NoChannel
    THEN [NoQuery EXCEPT !.Type = "channel", !.Channel = channel]
    ELSE NoQuery

ResolveByParsers(input) ==
    FirstParsed(ParseVideoID(input), ParsePlaylistID(input),
                ParseChannelIdentifier(input))

\* ResolveQuery: the watch URL with v and list
ResolveWatch(input, videoID, playlistID) ==
    IF IsValidVideoID(videoID)
    THEN [NoQuery EXCEPT !.Type = "video", !.VideoID = videoID,
                         !.PlaylistID = IF KeepPlaylist(playlistID)
                                        THEN playlistID ELSE <<>>]
    ELSE ResolveByParsers(input)

ResolveURL(input, u) ==
    IF /\ u.ok
       /\ IsYouTubeHost(u.Host)
       /\ HasPrefix(u.Path, <<"/", "w", "a", "t", "c", "h">>)
    THEN ResolveWatch(input, QueryGet(u.RawQuery, <<"v">>),
                      QueryGet(u.RawQuery, <<"l", "i", "s", "t">>))
    ELSE ResolveByParsers(input)

ResolveSearch(searchQuery) ==
    IF searchQuery = <<>> THEN NoQuery
    ELSE [NoQuery EXCEPT !.Type = "search", !.SearchQuery = searchQuery]

ResolveTrimmed(input) ==
    IF input = <<>> THEN NoQuery
    ELSE IF HasPrefix(input, <<"?">>)
    THEN ResolveSearch(TrimPrefix(input, <<"?">>))
    ELSE ResolveURL(input, ParseURL(input))

\* ResolveQuery; NoQuery stands for ErrUnresolvableQuery
ResolveQuery(input) == ResolveTrimmed(TrimSpace(input))

\* ---- ResolveQuery called on its own
\* The inputs: the raw id, or scheme://host followed by one of the shapes
\* below for the video id V and the list parameter L
Shapes ==
    {"raw", "search", "watch", "watch&t", "watch&list", "list&watch",
     "channel&list", "short", "short?t", "embed", "embed?", "embed/", "v",
     "v?", "v/"}

\* the shapes that are no URL: the bare id, and the id after a "?"
BareShapes == {"raw", "search"}

\* 11 characters that are a video id and a playlist id at once
AmbiguousIDs ==
    { <<"U", "U">> \o Repeat("x", VideoIDLen - 2),
      <<"R", "D">> \o Repeat("-", VideoIDLen - 2) }

ShapeText(shape, V, L) ==
    CASE shape = "raw"        -> V
      [] shape = "search"     -> <<"?">> \o V
      [] shape = "channel&list" ->
            <<"/", "c", "h", "a", "n", "n", "e", "l", "/", "U", "C">>
               \o Repeat("x", ChannelIDBodyLen)
               \o <<"?", "l", "i", "s", "t", "=">> \o L
      [] shape = "watch"      -> <<"/", "w", "a", "t", "c", "h", "?", "v", "=">> \o V
      [] shape = "watch&t"    -> <<"/", "w", "a", "t", "c", "h", "?", "v", "=">> \o V
                                    \o <<"&", "t", "=", "1", "0">>
      [] shape = "watch&list" -> <<"/", "w", "a", "t", "c", "h", "?", "v", "=">> \o V
                                    \o <<"&", "l", "i", "s", "t", "=">> \o L
      [] shape = "list&watch" -> <<"/", "w", "a", "t", "c", "h", "?", "l", "i", "s",
                   "t", "=">>
                                    \o L \o <<"&", "v", "=">> \o V
      [] shape = "short"      -> <<"/">> \o V
      [] shape = "short?t"    -> <<"/">> \o V \o <<"?", "t", "=", "1", "0">>
      [] shape = "embed"      -> <<"/", "e", "m", "b", "e", "d", "/">> \o V
      [] shape = "embed?"     -> <<"/", "e", "m", "b", "e", "d", "/">> \o V
                                    \o <<"?", "s", "t", "a", "r", "t", "=", "5">>
      [] shape = "embed/"     -> <<"/", "e", "m", "b", "e", "d", "/">> \o V
                                    \o <<"/", "x">>
      [] shape = "v"          -> <<"/", "v", "/">> \o V
      [] shape = "v?"         -> <<"/", "v", "/">> \o V \o <<"?", "h", "l", "=", "e", "n">>
      [] shape = "v/"         -> <<"/", "v", "/">> \o V \o <<"/">>

Schemes ==
    { <<"h", "t", "t", "p", "s", ":", "/", "/">>,
      <<"h", "t", "t", "p", ":", "/", "/">> }

HostMixedCase ==
    <<"W", "W", "W", ".", "Y", "o", "u", "T", "u", "b", "e", ".",
      "C", "o", "m">>
HostMobileUpper ==
    <<"M", ".", "Y", "O", "U", "T", "U", "B", "E", ".", "C", "O", "M">>
HostOther ==
    <<"e", "x", "a", "m", "p", "l", "e", ".", "c", "o", "m">>

InputHosts ==
    {HostYoutube, HostWww, HostMobile, HostShort, HostMixedCase,
     HostMobileUpper, HostOther}

\* list parameters: three valid playlist ids and two that are not
ListParams ==
    { <<"P", "L">> \o Repeat("q", PlaylistBodyLen), <<"W", "L">>,
      <<"R", "D">> \o Repeat("a", VideoIDLen),
      <<"P", "L", "x">>, <<"X", "Y", "Z">> }

InputText(c) ==
    c.pad \o (IF c.shape \in BareShapes
              THEN ShapeText(c.shape, c.videoID, c.list)
              ELSE c.scheme \o c.host \o ShapeText(c.shape, c.videoID, c.list))
          \o c.pad

ResolveCalls ==
    { c \in [fn : {"ResolveQuery"}, pad : {<<>>, <<" ">>}, scheme : Schemes,
             host : InputHosts, shape : Shapes,
             videoID : VideoIDs \cup AmbiguousIDs, list : ListParams] :
         /\ c.shape \in BareShapes =>
               c.host = HostYoutube /\ c.scheme = CHOOSE x \in Schemes : TRUE
         /\ c.shape \notin {"watch&list", "list&watch", "channel&list"} =>
               c.list = <<"W", "L">>
         /\ c.shape = "channel&list" =>
               c.videoID = CHOOSE x \in VideoIDs : TRUE }

InitResolve ==
    /\ fnCall \in ResolveCalls
    /\ fnResult = NoResult
    /\ ctxCancelled = FALSE
    /\ cancelledAtCall = FALSE
    /\ InitDownloads(0)
    /\ hasProgress = FALSE
    /\ results = <<>>
    /\ ret = <<>>
    /\ mainPc = "idle"
    /\ ParallelIdle
    /\ BatchIdle
    /\ OrchIdle
    /\ MuxIdle

CallResolveQuery ==
    /\ fnCall.fn = "ResolveQuery"
    /\ fnResult = NoResult
    /\ fnResult' = [query |-> ResolveQuery(InputText(fnCall))]
    /\ FnFrame

NextResolve == CallResolveQuery

SpecResolve == InitResolve /\ [][NextResolve]_vars

\* ---- runDownloadWithDeps, continued
DownloadOptions ==
    [quality : {"best", "720p", "audio"}, format : {"mp4", "webm", "mp3"}]

InitOrch ==
    /\ query \in ResolvedQueries \cup {NoQuery}
    /\ opts \in DownloadOptions
    /\ opc = "resolve"
    /\ oerr = NilErr
    /\ out = <<>>
    /\ playlistArg = <<>>
    /\ fetches = 0
    /\ odetail = NilErr
    /\ muxer \in {"nil", "ffmpeg"}
    /\ playerResponse = NoResponse
    /\ manifest = NoManifest
    /\ selectedOption = NilOption
    /\ tempDir = "none"
    /\ cmdErr = NoCmdErr
    /\ ctxCancelled \in BOOLEAN
    /\ cancelledAtCall = ctxCancelled
    /\ InitDownloads(2)
    /\ hasProgress = FALSE
    /\ results = <<>>
    /\ ret = <<>>
    /\ mainPc = "idle"
    /\ ParallelIdle
    /\ BatchIdle
    /\ MuxIdle
    /\ FnIdle

OrchFrame ==
    UNCHANGED <<dlvars, callvars, parvars, batchvars, progressLog, muxvars, fnvars>>

\* query, err := youtube.ResolveQuery(urlStr); if err != nil { return }
OrchResolve ==
    /\ opc = "resolve"
    /\ IF query = NoQuery
       THEN /\ oerr' = ErrInvalidURL
            /\ opc' = "done"
       ELSE /\ opc' = "dispatch"
            /\ UNCHANGED oerr
    /\ UNCHANGED <<query, opts, out, playlistArg, fetches, videovars>>
    /\ OrchFrame

\* switch query.Type
OrchDispatch ==
    /\ opc = "dispatch"
    /\ CASE query.Type = "video" ->
              /\ opc' = "video"
              /\ UNCHANGED <<oerr, playlistArg>>
         [] query.Type = "playlist" ->
              /\ opc' = "playlist"
              /\ playlistArg' = query.PlaylistID
              /\ UNCHANGED oerr
         [] query.Type = "channel" ->
              /\ opc' = "channel"
              /\ UNCHANGED <<oerr, playlistArg>>
         [] query.Type = "search" ->
              /\ opc' = "done"
              /\ oerr' = ErrSearch
              /\ UNCHANGED playlistArg
         [] OTHER ->
              /\ opc' = "done"
              /\ oerr' = ErrUnsupported
              /\ UNCHANGED playlistArg
    /\ UNCHANGED <<query, opts, out, fetches, videovars>>
    /\ OrchFrame

\* downloadPlaylist: three lines of output and the not-implemented error
DownloadPlaylist ==
    /\ opc = "playlist"
    /\ out' = out \o << <<"Playlist download", playlistArg>>,
                        <<"Note: Full playlist fetching">>,
                        <<"Currently, only individual video downloads">> >>
    /\ oerr' = ErrPlaylist
    /\ opc' = "done"
    /\ UNCHANGED <<query, opts, playlistArg, fetches, videovars>>
    /\ OrchFrame

\* downloadChannel: a channel given by its ID goes on as its uploads
\* playlist, any other channel ends with the not-implemented error
DownloadChannel ==
    /\ opc = "channel"
    /\ LET channel == query.Channel
           uploadsPlaylistID == UploadsPlaylistID(channel)
           line == <<"Channel download", channel.Value, channel.Type>>
       IN IF channel.Type = "id" /\ uploadsPlaylistID # <<>>
          THEN /\ out' = out \o << line,
                     <<"Converting to uploads playlist", uploadsPlaylistID>> >>
               /\ playlistArg' = uploadsPlaylistID
               /\ opc' = "playlist"
               /\ UNCHANGED oerr
          ELSE /\ out' = out \o << line, <<"Note: Channel handles">> >>
               /\ oerr' = ErrChannel
               /\ opc' = "done"
               /\ UNCHANGED playlistArg
    /\ UNCHANGED <<query, opts, fetches, videovars>>
    /\ OrchFrame

\* downloadSingleVideo, its first statements: the line "Fetching video info"
\* and fetcher.Fetch, which fails when ctx is cancelled or the page cannot
\* be had; the function goes on from "extract"
FetchWatchPage ==
    /\ opc = "video"
    /\ out' = Append(out, <<"Fetching video info", query.VideoID>>)
    /\ fetches' = fetches + 1
    /\ \/ /\ oerr' = ErrFetch
          /\ opc' = "done"
       \/ /\ ~ctxCancelled
          /\ opc' = "extract"
          /\ UNCHANGED oerr
    /\ UNCHANGED <<query, opts, playlistArg, videovars>>
    /\ OrchFrame

\* ---- downloadSingleVideo, after the fetch
ErrExtract         == "failed to extract video data"
ErrUnavailable     == "video unavailable"
ErrParseVideo      == "failed to parse video metadata"
ErrNoStreamingData == "no streaming data available"
ErrNoSuitable      == "no suitable stream found for the requested quality"
ErrNoDownloadable  == "no downloadable stream found"
ErrMuxedNoURL      == "muxed stream has no URL"
ErrNoAudio         == "no audio stream available"
ErrAudioNoURL      == "audio stream has no URL"
ErrDownloadFailed  == "download failed"
ErrTempDir         == "failed to create temp directory"
ErrVideoDownload   == "failed to download video"
ErrAudioDownload   == "failed to download audio"
ErrNoMuxer         == "muxer not available (FFmpeg required)"
ErrMuxStreams      == "failed to mux streams"

\* The player responses a watch page can hold
PlayerResponses ==
    [Status : {"OK", "ERROR", "LOGIN_REQUIRED"},
     Reason : {"", "Video unavailable"},
     StreamingData : BOOLEAN]

\* The manifests GetStreamManifest can return: streams whose URL is served
\* ("ok1", "ok2", "ok3"), answers with status 500, or is empty
Manifests ==
    [VideoStreams :
        { <<>>,
          <<VideoStreamInfo("ok1", 1080, "mp4")>>,
          <<VideoStreamInfo("", 2160, "webm"),
            VideoStreamInfo("ok1", 720, "mp4")>>,
          <<VideoStreamInfo("", 1080, "mp4")>>,
          <<VideoStreamInfo("http500", 720, "webm")>> },
     AudioStreams :
        { <<>>,
          <<AudioStreamInfo("ok2", 128, "mp4")>>,
          <<AudioStreamInfo("", 160, "webm"),
            AudioStreamInfo("ok2", 128, "mp4")>>,
          <<AudioStreamInfo("", 128, "mp4")>>,
          <<AudioStreamInfo("ok1", 128, "mp4")>>,
          <<AudioStreamInfo("http500", 128, "webm")>> },
     MuxedStreams :
        { <<>>,
          <<MuxedStreamInfo("ok3", 360, "mp4")>>,
          <<MuxedStreamInfo("", 360, "mp4")>> }]

\* ---- GetDownloadOptions called on its own
\* Manifests with several audio streams per container, and with a video
\* stream in a container that no audio stream has
PairingManifests ==
    [VideoStreams :
        { <<VideoStreamInfo("ok1", 1080, "mp4"),
            VideoStreamInfo("ok1", 2160, "webm")>>,
          <<VideoStreamInfo("ok1", 360, "3gp"),
            VideoStreamInfo("ok1", 720, "mp4")>> },
     AudioStreams :
        { <<AudioStreamInfo("ok1", 96, "mp4"),
            AudioStreamInfo("ok2", 128, "mp4"),
            AudioStreamInfo("ok3", 128, "mp4")>>,
          <<AudioStreamInfo("ok1", 64, "webm"),
            AudioStreamInfo("ok2", 160, "webm")>>,
          <<AudioStreamInfo("ok1", 160, "webm"),
            AudioStreamInfo("ok2", 64, "webm"),
            AudioStreamInfo("ok3", 48, "mp4")>>,
          <<AudioStreamInfo("ok1", 48, "ogg"),
            AudioStreamInfo("ok2", 32, "3gp")>> },
     MuxedStreams :
        { <<>>,
          <<MuxedStreamInfo("ok3", 360, "mp4"),
            MuxedStreamInfo("ok2", 720, "mp4")>> }]

InitOptions ==
    /\ fnCall \in [fn : {"GetDownloadOptions"},
                   manifest : Manifests \cup PairingManifests]
    /\ fnResult = NoResult
    /\ ctxCancelled = FALSE
    /\ cancelledAtCall = FALSE
    /\ InitDownloads(0)
    /\ hasProgress = FALSE
    /\ results = <<>>
    /\ ret = <<>>
    /\ mainPc = "idle"
    /\ ParallelIdle
    /\ BatchIdle
    /\ OrchIdle
    /\ MuxIdle

CallGetDownloadOptions ==
    /\ fnCall.fn = "GetDownloadOptions"
    /\ fnResult = NoResult
    /\ fnResult' = [options |-> GetDownloadOptions(fnCall.manifest)]
    /\ FnFrame

NextOptions == CallGetDownloadOptions

SpecOptions == InitOptions /\ [][NextOptions]_vars

\* The environments in which the muxer looks for ffmpeg
OrchEnvironments ==
    [wd : {"cwd"}, exeDir : {"cwd"}, path : {<<"bin">>},
     ffmpegIn : {{}, {"bin"}}]

Playable_Always(status) == TRUE

\* playerResponse.PlayabilityStatus.Status != "OK" ends the download
Playable(status) == status = "OK"

\* reason := ...Reason; if reason == "" { reason = "unknown reason" }
UnavailableReason(reason) ==
    IF reason = "" THEN "unknown reason" ELSE reason

\* audioOnly := EqualFold(opts.format, "mp3") || EqualFold(opts.quality, "audio")
AudioOnly(o) == o.format = "mp3" \/ o.quality = "audio"

\* parseContainer
ParseContainer(format) ==
    CASE format = "webm" -> "webm"
      [] format = "mp3"  -> "mp3"
      [] format = "mp4"  -> "mp4"
      [] OTHER -> "mp4"

\* parseQualityPreference
ParseQualityPreference(quality) ==
    CASE quality \in {"best", "highest"}        -> QualityHighest
      [] quality \in {"1080p", "1080"}          -> QualityUpTo1080p
      [] quality \in {"720p", "720"}            -> QualityUpTo720p
      [] quality \in {"480p", "480"}            -> QualityUpTo480p
      [] quality \in {"360p", "360"}            -> QualityUpTo360p
      [] quality \in {"worst", "lowest", "audio"} -> QualityLowest
      [] OTHER -> QualityHighest

\* outputPath: the title with the container's extension, mp3 when audioOnly
OutputPath(o) ==
    CASE AudioOnly(o) -> "out/title.mp3"
      [] ParseContainer(o.format) = "webm" -> "out/title.webm"
      [] OTHER -> "out/title.mp4"

\* filepath.Join(tempDir, "video."+container), and the same for audio
TempVideoPath(container) ==
    IF container = "webm" THEN "tmp/video.webm" ELSE "tmp/video.mp4"
TempAudioPath(container) ==
    IF container = "webm" THEN "tmp/audio.webm" ELSE "tmp/audio.mp4"
TempPaths ==
    {"tmp/video.mp4", "tmp/video.webm", "tmp/audio.mp4", "tmp/audio.webm"}

RemoveAll_Keep(fs) == fs

\* os.RemoveAll(tempDir): the files below the temporary directory are gone
RemoveAll(fs) ==
    [p \in DOMAIN fs |-> IF p \in TempPaths THEN NoFile ELSE fs[p]]

\* the condition under which downloadSingleVideo calls downloadAndMux
NeedsMux(option) ==
    /\ option.VideoStream # NilStream
    /\ option.AudioStream # NilStream
    /\ option.VideoStream.URL # ""
    /\ option.AudioStream.URL # ""
    /\ option.VideoStream.URL # option.AudioStream.URL

HasURL_Unchecked(stream) == stream # NilStream

\* stream != nil && stream.URL != ""
HasURL(stream) == stream # NilStream /\ stream.URL # ""

\* what no statement of downloadSingleVideo changes
VideoFrame ==
    UNCHANGED <<ctxCancelled, terr, remaining, downloaded, startedAtCancel,
                callvars, parvars, batchvars, progressLog, fnvars,
                query, opts, playlistArg, fetches, muxer, cmdErr>>

\* return err
Returns(err, detail) ==
    /\ oerr' = err
    /\ odetail' = detail
    /\ opc' = "done"

GoesOn(next) ==
    /\ opc' = next
    /\ UNCHANGED <<oerr, odetail>>

\* downloader.DownloadStream(ctx, url, filePath, progressCallback) is called
CallDownloadStream(t, url, filePath) ==
    /\ args' = [args EXCEPT ![t] =
                   [url |-> url, filePath |-> filePath, progress |-> "plain"]]
    /\ tpc' = [tpc EXCEPT ![t] = "request"]

\* downloadSingleStream up to its call of DownloadStream
DownloadSingleStream(lines, url) ==
    /\ out' = out \o lines \o << <<"Downloading to", OutputPath(opts)>> >>
    /\ CallDownloadStream(1, url, OutputPath(opts))
    /\ GoesOn("single")

\* playerResponse, err := watchPage.ExtractPlayerResponse()
ExtractPlayerResponse ==
    /\ opc = "extract"
    /\ \/ /\ Returns(ErrExtract, "player response not found")
          /\ UNCHANGED playerResponse
       \/ /\ playerResponse' \in PlayerResponses
          /\ GoesOn("playability")
    /\ UNCHANGED <<args, tpc, files, out, manifest, selectedOption, tempDir,
                   muxvars>>
    /\ VideoFrame

\* if playerResponse.PlayabilityStatus.Status != "OK" { return ... }
CheckPlayability ==
    /\ opc = "playability"
    /\ IF ~Playable(playerResponse.Status)
       THEN Returns(ErrUnavailable, UnavailableReason(playerResponse.Reason))
       ELSE GoesOn("tovideo")
    /\ UNCHANGED <<args, tpc, files, out, playerResponse, manifest,
                   selectedOption, tempDir, muxvars>>
    /\ VideoFrame

\* video, err := playerResponse.ToVideo(), and the three lines about it
ToVideo ==
    /\ opc = "tovideo"
    /\ \/ /\ Returns(ErrParseVideo, "invalid duration")
          /\ UNCHANGED out
       \/ /\ out' = out \o << <<"Title", "title">>, <<"Author">>,
                              <<"Duration">> >>
          /\ GoesOn("streamingdata")
    /\ UNCHANGED <<args, tpc, files, playerResponse, manifest, selectedOption,
                   tempDir, muxvars>>
    /\ VideoFrame

\* if playerResponse.StreamingData == nil { return ... }
\* manifest := playerResponse.StreamingData.GetStreamManifest()
GetStreamManifest ==
    /\ opc = "streamingdata"
    /\ IF ~playerResponse.StreamingData
       THEN /\ Returns(ErrNoStreamingData, NilErr)
            /\ UNCHANGED manifest
       ELSE /\ manifest' \in Manifests
            /\ GoesOn("options")
    /\ UNCHANGED <<args, tpc, files, out, playerResponse, selectedOption,
                   tempDir, muxvars>>
    /\ VideoFrame

\* if audioOnly { return downloadAudioOnly(...) }; SelectBestOption; the
\* branch on selectedOption == nil
ChooseOption ==
    /\ opc = "options"
    /\ IF AudioOnly(opts)
       THEN /\ GoesOn("audioonly")
            /\ UNCHANGED <<selectedOption, out>>
       ELSE /\ selectedOption' =
                  SelectBestOption(GetDownloadOptions(manifest),
                                   ParseQualityPreference(opts.quality),
                                   ParseContainer(opts.format))
            /\ IF selectedOption' = NilOption
               THEN /\ IF Len(manifest.MuxedStreams) > 0
                       THEN GoesOn("muxed")
                       ELSE Returns(ErrNoSuitable, NilErr)
                    /\ UNCHANGED out
               ELSE /\ out' = Append(out, <<"Selected quality",
                                  selectedOption'.VideoStream.Height>>)
                    /\ GoesOn("route")
    /\ UNCHANGED <<args, tpc, files, playerResponse, manifest, tempDir,
                   muxvars>>
    /\ VideoFrame

\* downloadAudioOnly
DownloadAudioOnly ==
    /\ opc = "audioonly"
    /\ IF GetBestAudioStream(manifest) = NilStream
       THEN /\ Returns(ErrNoAudio, NilErr)
            /\ UNCHANGED <<args, tpc, out>>
       ELSE IF ~HasURL(GetBestAudioStream(manifest))
       THEN /\ Returns(ErrAudioNoURL, NilErr)
            /\ UNCHANGED <<args, tpc, out>>
       ELSE DownloadSingleStream(<< <<"Downloading audio">> >>,
                                 GetBestAudioStream(manifest).URL)
    /\ UNCHANGED <<files, playerResponse, manifest, selectedOption, tempDir,
                   muxvars>>
    /\ VideoFrame

\* downloadMuxedStream(&manifest.MuxedStreams[0])
DownloadMuxedStream ==
    /\ opc = "muxed"
    /\ IF ~HasURL(manifest.MuxedStreams[1].VideoStreamInfo)
       THEN /\ Returns(ErrMuxedNoURL, NilErr)
            /\ UNCHANGED <<args, tpc, out>>
       ELSE DownloadSingleStream(<<>>,
                manifest.MuxedStreams[1].VideoStreamInfo.URL)
    /\ UNCHANGED <<files, playerResponse, manifest, selectedOption, tempDir,
                   muxvars>>
    /\ VideoFrame

\* the tail of downloadSingleVideo: downloadAndMux, downloadSingleStream,
\* the first muxed stream, or no downloadable stream
RouteOption ==
    /\ opc = "route"
    /\ IF NeedsMux(selectedOption)
       THEN /\ GoesOn("mkdirtemp")
            /\ UNCHANGED <<args, tpc, out>>
       ELSE IF HasURL(selectedOption.VideoStream)
       THEN DownloadSingleStream(<<>>, selectedOption.VideoStream.URL)
       ELSE IF /\ Len(manifest.MuxedStreams) > 0
               /\ manifest.MuxedStreams[1].VideoStreamInfo.URL # ""
       THEN /\ GoesOn("muxed")
            /\ UNCHANGED <<args, tpc, out>>
       ELSE /\ Returns(ErrNoDownloadable, NilErr)
            /\ UNCHANGED <<args, tpc, out>>
    /\ UNCHANGED <<files, playerResponse, manifest, selectedOption, tempDir,
                   muxvars>>
    /\ VideoFrame

\* downloadSingleStream after DownloadStream has returned
SingleStreamReturns ==
    /\ opc = "single"
    /\ tpc[1] = "returned"
    /\ tpc' = [tpc EXCEPT ![1] = "done"]
    /\ IF terr[1] # NilErr
       THEN /\ Returns(ErrDownloadFailed, terr[1])
            /\ UNCHANGED out
       ELSE /\ out' = Append(out, <<"Download complete", OutputPath(opts)>>)
            /\ Returns(NilErr, NilErr)
    /\ UNCHANGED <<args, files, playerResponse, manifest, selectedOption,
                   tempDir, muxvars>>
    /\ VideoFrame

\* downloadAndMux: os.MkdirTemp, then the video download is started
MkdirTemp ==
    /\ opc = "mkdirtemp"
    /\ \/ /\ Returns(ErrTempDir, "mkdir failed")
          /\ UNCHANGED <<args, tpc, out, tempDir>>
       \/ /\ tempDir' = "exists"
          /\ out' = Append(out, <<"Downloading video stream...">>)
          /\ CallDownloadStream(1, selectedOption.VideoStream.URL,
                 TempVideoPath(selectedOption.VideoStream.Container))
          /\ GoesOn("videodl")
    /\ UNCHANGED <<files, playerResponse, manifest, selectedOption, muxvars>>
    /\ VideoFrame

\* downloadAndMux: the video download has returned; on success the audio
\* download is started, on failure the deferred RemoveAll runs
VideoStreamReturns ==
    /\ opc = "videodl"
    /\ tpc[1] = "returned"
    /\ IF terr[1] # NilErr
       THEN /\ Returns(ErrVideoDownload, terr[1])
            /\ tpc' = [tpc EXCEPT ![1] = "done"]
            /\ files' = RemoveAll(files)
            /\ tempDir' = "removed"
            /\ UNCHANGED <<args, out>>
       ELSE /\ out' = Append(out, <<"Downloading audio stream...">>)
            /\ args' = [args EXCEPT ![2] =
                  [url |-> selectedOption.AudioStream.URL,
                   filePath |->
                      TempAudioPath(selectedOption.AudioStream.Container),
                   progress |-> "plain"]]
            /\ tpc' = [tpc EXCEPT ![1] = "done", ![2] = "request"]
            /\ GoesOn("audiodl")
            /\ UNCHANGED <<files, tempDir>>
    /\ UNCHANGED <<playerResponse, manifest, selectedOption, muxvars>>
    /\ VideoFrame

MuxerMissing_Never(mx) == FALSE

\* if muxer == nil
MuxerMissing(mx) == mx = "nil"

\* downloadAndMux: the audio download has returned; on success the muxer
\* is called, unless it is nil
AudioStreamReturns ==
    /\ opc = "audiodl"
    /\ tpc[2] = "returned"
    /\ tpc' = [tpc EXCEPT ![2] = "done"]
    /\ IF terr[2] # NilErr \/ MuxerMissing(muxer)
       THEN /\ IF terr[2] # NilErr
               THEN Returns(ErrAudioDownload, terr[2])
               ELSE Returns(ErrNoMuxer, NilErr)
            /\ files' = RemoveAll(files)
            /\ tempDir' = "removed"
            /\ UNCHANGED <<out, muxvars>>
       ELSE /\ out' = Append(out, <<"Muxing streams...">>)
            /\ env' \in OrchEnvironments
            /\ muxArgs' =
                  [videoPath |->
                      TempVideoPath(selectedOption.VideoStream.Container),
                   audioPath |->
                      TempAudioPath(selectedOption.AudioStream.Container),
                   outputPath |-> OutputPath(opts)]
            /\ muxpc' = "lookup"
            /\ GoesOn("mux")
            /\ UNCHANGED <<files, tempDir, muxErr, children>>
    /\ UNCHANGED <<args, playerResponse, manifest, selectedOption>>
    /\ VideoFrame

\* downloadAndMux: the muxer has returned; the deferred RemoveAll runs
MuxReturns ==
    /\ opc = "mux"
    /\ muxpc = "returned"
    /\ muxpc' = "done"
    /\ IF muxErr # NilErr
       THEN /\ Returns(ErrMuxStreams, muxErr)
            /\ UNCHANGED out
       ELSE /\ out' = Append(out, <<"Download complete", OutputPath(opts)>>)
            /\ Returns(NilErr, NilErr)
    /\ files' = RemoveAll(files)
    /\ tempDir' = "removed"
    /\ UNCHANGED <<args, tpc, playerResponse, manifest, selectedOption,
                   env, muxArgs, muxErr, children>>
    /\ VideoFrame

\* errors.Is(err, ffmpeg.ErrNotFound), errors.Is(err, ErrUnresolvableQuery)
\* and strings.Contains(err.Error(), "unavailable"), for the error whose
\* message is err and which wraps (or ends with) detail
\* WrapError: the message of the UserFriendlyError put around the error, ""
\* when the error is returned as it is. The branches left out match errors
\* that no run produces here (timeouts, DNS, permission, disk space, the
\* status codes 403, 404 and 429).
FriendlyMessage(err, detail) ==
    CASE err = ErrInvalidURL  -> "Unable to recognize the URL or ID"
      [] detail = ErrNotFound -> "FFmpeg not found"
      [] err = ErrUnavailable -> "Video is unavailable"
      [] OTHER -> ""

\* WrapError(err)
WrapError(err, detail) ==
    [Friendly |-> FriendlyMessage(err, detail), Err |-> err, Detail |-> detail]

\* runDownload: err := runDownloadWithDeps(...); if err != nil { return
\* WrapError(err) }; return nil
RunDownloadReturns ==
    /\ opc = "done"
    /\ opc' = "returned"
    /\ cmdErr' = IF oerr # NilErr THEN WrapError(oerr, odetail)
                 ELSE [Friendly |-> "", Err |-> NilErr, Detail |-> NilErr]
    /\ UNCHANGED <<query, opts, oerr, out, playlistArg, fetches, odetail,
                   muxer, playerResponse, manifest, selectedOption, tempDir>>
    /\ OrchFrame

NextOrch ==
    \/ RunDownloadReturns
    \/ OrchResolve
    \/ OrchDispatch
    \/ DownloadPlaylist
    \/ DownloadChannel
    \/ FetchWatchPage
    \/ ExtractPlayerResponse
    \/ CheckPlayability
    \/ ToVideo
    \/ GetStreamManifest
    \/ ChooseOption
    \/ DownloadAudioOnly
    \/ DownloadMuxedStream
    \/ RouteOption
    \/ SingleStreamReturns
    \/ MkdirTemp
    \/ VideoStreamReturns
    \/ AudioStreamReturns
    \/ MuxReturns
    \/ Cancel
    \/ \E t \in Tasks : DoRequest(t)
    \/ \E t \in Tasks : CreateFile(t)
    \/ \E t \in Tasks : ReadData(t)
    \/ \E t \in Tasks : PlainCallback(t)
    \/ \E t \in Tasks : WriteData(t)
    \/ \E t \in Tasks : ReadEOF(t)
    \/ \E t \in Tasks : ReadCancelled(t)
    \/ MuxLookup
    \/ MuxStart
    \/ MuxChildSucceeds
    \/ MuxChildFails

SpecOrch == InitOrch /\ [][NextOrch]_vars

\* ------------------------------------------- claims: DownloadStreamsParallel
Aggregate(ps) ==
    [Downloaded |-> SumDownloaded(ps, Len(ps)), Total |-> SumTotal(ps, Len(ps))]

RECURSIVE SumContentLength(_, _)
SumContentLength(ss, k) ==
    IF k = 0 THEN 0
    ELSE SumContentLength(ss, k - 1) + Server(ss[k].URL).contentLength

\* C1: DownloadStreamsParallel returns only after every task has finished,
\* with exactly len(streams) results; result i carries streams[i].FilePath
\* and the error of the download of streams[i] itself, which, unless the
\* context is cancelled, is the outcome of downloading streams[i] alone
\* whatever the other streams do.
C1_ResultsPerStream ==
    mainPc = "returned" =>
        /\ \A t \in Tasks : tpc[t] = "done"
        /\ Len(ret) = Len(streams)
        /\ \A i \in 1..Len(streams) :
              /\ ret[i].FilePath = streams[i].FilePath
              /\ ret[i].Error = terr[i]
              /\ ret[i].Error \in
                    {SoloOutcome(streams[i].URL, streams[i].FilePath)}
                        \cup CancelErrors
              /\ ~ctxCancelled =>
                    ret[i].Error =
                        SoloOutcome(streams[i].URL, streams[i].FilePath)

\* C1 witness: a returned call of two streams, the first downloaded and the
\* second failed with an HTTP error.
C1_Witness ==
    /\ mainPc = "returned"
    /\ Len(streams) = 2
    /\ Len(ret) = 2
    /\ ret[1].Error = NilErr
    /\ ret[2].Error = ErrHTTP
    /\ files[streams[1].FilePath] =
          Repeat(streams[1].URL, Server(streams[1].URL).body)

\* C2: at most one task executes the caller's progress callback at any
\* moment.
C2_CallbackSerialized == Cardinality(cbActive) <= 1

\* C3: when every stream succeeded and every server sent a valid
\* Content-Length, the last invocation of the caller's callback carries
\* Total = the sum of the streams' content lengths.
C3_LastTotalIsSum ==
    ( /\ mainPc = "returned"
      /\ hasProgress
      /\ Len(streams) > 0
      /\ \A i \in 1..Len(streams) :
            /\ ret[i].Error = NilErr
            /\ Server(streams[i].URL).contentLength >= 0 )
    => lastReport.Total = SumContentLength(streams, Len(streams))

\* C4: the Progress value a task is about to pass to the caller's callback is
\* the sum, of Downloaded and of Total, over all slots as they stood right
\* after that task wrote its own slot.
C4_AggregateOfOneInstant ==
    \A t \in Tasks :
        tpc[t] \in {"unlock", "callback"} =>
            /\ acc[t] = Aggregate(snap[t])
            /\ snap[t][t] = [Downloaded |-> downloaded[t],
                             Total |-> Server(args[t].url).contentLength]

\* C4 witness: a task about to report a sum while another task's slot has
\* already moved on from the instant the sum was taken at.
C4_Witness ==
    \E t \in Tasks :
        /\ tpc[t] = "callback"
        /\ acc[t] = Aggregate(snap[t])
        /\ progresses # snap[t]
        /\ acc[t].Downloaded >= 2

\* C5: each slot's Downloaded only grows, and the aggregate Downloaded
\* delivered to the caller's callback never decreases from one invocation
\* to the next.
C5_Monotone ==
    [][ /\ \A t \in DOMAIN progresses :
              progresses'[t].Downloaded >= progresses[t].Downloaded
        /\ lastReport # NoReport =>
              lastReport'.Downloaded >= lastReport.Downloaded ]_vars

\* C6: called with a cancelled context, DownloadStreamsParallel still
\* returns one result per stream, and every result's Error is the failure
\* of that download by the cancellation.
C6_CancelledContext ==
    (cancelledAtCall /\ mainPc = "returned") =>
        /\ Len(ret) = Len(streams)
        /\ \A i \in 1..Len(streams) :
              /\ ret[i].FilePath = streams[i].FilePath
              /\ ret[i].Error # NilErr
              /\ ret[i].Error \in CancelErrors

\* C6 witness: a call with a cancelled context has returned two results.
C6_Witness ==
    /\ cancelledAtCall
    /\ mainPc = "returned"
    /\ Len(ret) = 2
    /\ \A i \in 1..2 : ret[i].Error = ErrExecuting

\* --------------------------------------------------- claims: DownloadBatch
\* C7: DownloadBatch works through the items in input order: the download
\* of an item has not begun unless the download of every earlier item has
\* returned, and result i belongs to item i.
C7_StrictInputOrder ==
    /\ \A j \in Tasks : tpc[j] # "idle" =>
          \A k \in 1..(j - 1) : tpc[k] = "returned"
    /\ \A j \in Tasks : tpc[j] # "idle" => j <= bi + 1
    /\ mainPc = "returned" =>
          /\ Len(ret) = Len(items)
          /\ \A k \in 1..Len(items) : ret[k].FilePath = items[k].FilePath

\* C7 witness: the third item is being downloaded after the first two have
\* returned, one of them with an error.
C7_Witness ==
    /\ Len(items) = 3
    /\ tpc[3] = "read"
    /\ results[1].Error = ErrHTTP
    /\ results[2].Error = NilErr

\* C8: when the context is cancelled during DownloadBatch (after the
\* download of at least one item has begun), every item whose download had
\* not been started at that moment gets the cancellation error as its
\* result and its download is never attempted; there is one result per
\* item.
C8_RemainingNotAttempted ==
    (mainPc = "returned" /\ ctxCancelled /\ startedAtCancel # {}) =>
        /\ Len(ret) = Len(items)
        /\ \A j \in Tasks \ startedAtCancel :
              /\ ret[j].Error = CtxCanceled
              /\ tpc[j] = "idle"

IsStartReport(b, i) ==
    b = BatchProgress(i, i, ZeroProgress)

IsDownloadReport(b, i) ==
    /\ b.CompletedCount = i
    /\ b.TotalCount = Len(items)
    /\ b.CurrentIndex = i
    /\ b.CurrentTitle = items[i + 1].Title
    /\ b.CurrentProgress.Downloaded \in 1..Server(items[i + 1].URL).body
    /\ b.CurrentProgress.Total = Server(items[i + 1].URL).contentLength

IsCompletionReport(b, i) ==
    b = BatchProgress(i + 1, i, ZeroProgress)

\* The reports from position k on continue the sequence the claim describes,
\* item i being the current one and open telling that its start report has
\* been seen and its completion report has not.
RECURSIVE ReportsFrom(_, _, _)
ReportsFrom(k, i, open) ==
    IF k > Len(reports) THEN TRUE
    ELSE IF i >= Len(items) THEN FALSE
    ELSE IF ~open
         THEN IsStartReport(reports[k], i) /\ ReportsFrom(k + 1, i, TRUE)
         ELSE \/ IsDownloadReport(reports[k], i) /\ ReportsFrom(k + 1, i, TRUE)
              \/ IsCompletionReport(reports[k], i)
                    /\ ReportsFrom(k + 1, i + 1, FALSE)

StartReports ==
    { k \in 1..Len(reports) :
         \E i \in 0..(Len(items) - 1) : IsStartReport(reports[k], i) }

\* C9: for a batch that is not cancelled the reports are, item by item in
\* order, one start report, then in-download reports, then one completion
\* report; CompletedCount never decreases and the last report of the batch
\* has CompletedCount = TotalCount = N.
C9_ReportSequence ==
    ~ctxCancelled =>
        /\ ReportsFrom(1, 0, FALSE)
        /\ \A k \in 1..(Len(reports) - 1) :
              reports[k].CompletedCount <= reports[k + 1].CompletedCount
        /\ (mainPc = "returned" /\ hasProgress /\ Len(items) > 0) =>
              /\ Cardinality(StartReports) = Len(items)
              /\ reports[Len(reports)].CompletedCount = Len(items)
              /\ reports[Len(reports)].TotalCount = Len(items)

\* C9 witness: a batch of three items has returned uncancelled, with an item
\* that reported two reads and an item that failed.
C9_Witness ==
    /\ ~ctxCancelled
    /\ mainPc = "returned"
    /\ Len(items) = 3
    /\ Len(reports) = 3 * 2 + 3
    /\ \E k \in Tasks : ret[k].Error = ErrHTTP

\* the items whose DownloadStream call has returned
ReturnedCalls == { t \in Tasks : tpc[t] = "returned" }

\* the loop is past the completion report of item i
CompletionPassed(i) ==
    \/ i < bi
    \/ i = bi /\ mainPc \in {"check", "returned"}

\* the download of the current item has returned and its completion report
\* is still to come
CompletionPending ==
    mainPc \in {"download", "complete"} /\ tpc[bi + 1] = "returned"

\* the loop was left by the break after ctx.Err() != nil
BrokeOff == mainPc = "returned" /\ bi < Len(items)

LastReport == reports[Len(reports)]

\* C30: DownloadBatch emits the completion report {CompletedCount = i + 1}
\* for item i whether its download succeeded, failed or was cut by
\* cancellation; at every report CompletedCount is the number of items
\* whose download call has returned; the completion report of the item
\* during which cancellation is observed is the last report of the batch.
C30_CompletionAlwaysReported ==
    hasProgress =>
       /\ \A i \in 0..(Len(items) - 1) :
             CompletionPassed(i) =>
                \E k \in 1..Len(reports) : IsCompletionReport(reports[k], i)
       /\ (Len(reports) > 0 /\ ~CompletionPending) =>
             LastReport.CompletedCount = Cardinality(ReturnedCalls)
       /\ BrokeOff =>
             /\ ctxCancelled
             /\ IsCompletionReport(LastReport, bi)
             /\ Cardinality(ReturnedCalls) = bi + 1

\* C30 witness: the second of three items was cut by cancellation while its
\* body was copied, after a first item that failed; both completion reports
\* were emitted and the second is the last report.
C30_Witness ==
    /\ hasProgress
    /\ Len(items) = 3
    /\ BrokeOff
    /\ bi = 1
    /\ ret[1].Error = ErrHTTP
    /\ ret[2].Error = ErrWriting
    /\ ret[3].Error = CtxCanceled
    /\ IsCompletionReport(LastReport, 1)
    /\ LastReport.CompletedCount = 2

\* ------------------------------------------------- claims: DownloadStream
Succeeded(t) == tpc[t] \in {"returned", "done"} /\ terr[t] = NilErr

Body(url) == Repeat(url, Server(url).body)

\* C14: when two calls of DownloadStream in succession on the same path both
\* succeed, the file holds exactly the body of the second response, even
\* when that body is shorter than the first.
C14_SecondCallReplaces ==
    \A t \in Tasks :
        (/\ t > 1
         /\ Succeeded(t - 1)
         /\ Succeeded(t)
         /\ args[t].filePath = args[t - 1].filePath
         /\ \A u \in Tasks : u > t => tpc[u] = "idle")
        => files[args[t].filePath] = Body(args[t].url)

\* C14 witness: a body of three chunks was replaced by a body of one chunk.
C14_Witness ==
    /\ Succeeded(1)
    /\ Succeeded(2)
    /\ args[1] = [url |-> "ok3", filePath |-> "f1", progress |-> "nil"]
    /\ args[2] = [url |-> "ok1", filePath |-> "f1", progress |-> "plain"]
    /\ files["f1"] = <<"ok1">>

\* C15: with a progress callback and a valid Content-Length, the reported
\* Downloaded values increase strictly, every report has Total =
\* Content-Length, and once the call has succeeded the last report has
\* Downloaded = Total, however the reads split the body.
C15_ProgressReports ==
    \A t \in Tasks :
        (args[t].progress = "plain" /\ Server(args[t].url).contentLength > 0)
        => LET log == progressLog[t]
               cl  == Server(args[t].url).contentLength
           IN /\ \A k \in 1..Len(log) : log[k].Total = cl
              /\ \A k \in 1..Len(log) : log[k].Downloaded > 0
              /\ \A k \in 1..(Len(log) - 1) :
                    log[k].Downloaded < log[k + 1].Downloaded
              /\ Succeeded(t) =>
                    /\ Len(log) > 0
                    /\ log[Len(log)].Downloaded = log[Len(log)].Total

\* C15 witness: a body of three chunks arrived in two reads, 1 then 2.
C15_Witness ==
    \E t \in Tasks :
        /\ Succeeded(t)
        /\ args[t].url = "ok3"
        /\ args[t].progress = "plain"
        /\ progressLog[t] = << [Downloaded |-> 1, Total |-> 3],
                               [Downloaded |-> 3, Total |-> 3] >>

\* the call of task t fails before DownloadStream touches the file system:
\* the request is not executed, or the status is outside [200, 300)
FailsAtRequest(t) ==
    /\ tpc[t] # "idle"
    /\ \/ terr[t] \in {ErrExecuting, ErrNoScheme}
       \/ Server(args[t].url).status \notin 200..299

\* the call of task t has got past os.MkdirAll and os.Create
HasCreated(t) ==
    /\ tpc[t] \notin {"idle", "request", "create"}
    /\ terr[t] \notin {ErrExecuting, ErrNoScheme, ErrHTTP, ErrCreateFile}

\* C27: a DownloadStream that fails because the request could not be
\* executed (a cancelled context included) or because the status is outside
\* [200, 300) leaves the file system as it was: it creates no directory and
\* no file, and a file at the destination keeps its contents.
C27_RequestFailureKeepsFiles ==
    /\ \A t \in Tasks : FailsAtRequest(t) => ~HasCreated(t)
    /\ \A p \in DOMAIN files :
          files[p] # NoFile =>
             \E t \in Tasks :
                /\ ~FailsAtRequest(t)
                /\ HasCreated(t)
                /\ p \in {args[t].filePath, DirOf(args[t].filePath)}
    /\ \A t \in Tasks :
          (/\ t > 1
           /\ FailsAtRequest(t)
           /\ Succeeded(t - 1)
           /\ args[t - 1].filePath = args[t].filePath
           /\ \A u \in Tasks : u > t => tpc[u] = "idle")
          => files[args[t].filePath] = Body(args[t - 1].url)

\* C27 witness: the second call, on the path of a finished download of
\* three chunks, got status 500 and has returned; the file is whole.
C27_Witness ==
    /\ Succeeded(1)
    /\ args[1].url = "ok3"
    /\ args[1].filePath = "f1"
    /\ args[2].url = "http500"
    /\ args[2].filePath = "f1"
    /\ tpc[2] = "done"
    /\ terr[2] = ErrHTTP
    /\ files["f1"] = <<"ok3", "ok3", "ok3">>

\* C27 second case: a call into a directory that does not exist found the
\* context cancelled; the directory was not created.
C27_WitnessNoDirectory ==
    /\ args[1].filePath = "new/f6"
    /\ tpc[1] = "done"
    /\ terr[1] = ErrExecuting
    /\ files["new"] = NoFile
    /\ files["new/f6"] = NoFile

\* C27 third case: a successful call did create the directory.
C27_WitnessDirectory ==
    /\ args[1].filePath = "new/f6"
    /\ Succeeded(1)
    /\ files["new"] = IsDir
    /\ files["new/f6"] = Body(args[1].url)

\* C23: every Progress reported by DownloadStream has Total >= 0, Total is 0
\* when the response has no valid Content-Length, and Percentage is 0 for an
\* unknown length and never negative.
C23_TotalNotNegative ==
    \A t \in Tasks :
        \A k \in 1..Len(progressLog[t]) :
            /\ progressLog[t][k].Total >= 0
            /\ Percentage(progressLog[t][k]) >= 0
            /\ Server(args[t].url).contentLength < 0 =>
                  /\ progressLog[t][k].Total = 0
                  /\ Percentage(progressLog[t][k]) = 0

\* ------------------------------------------------ claims: SelectBestOption
\* the positions of the call's options that are not audio-only and have a
\* video stream
CallVideoPositions ==
    { j \in 1..Len(fnCall.options) :
         /\ ~fnCall.options[j].IsAudioOnly
         /\ fnCall.options[j].VideoStream # NilStream }

\* the heights of the video-bearing options of the call
CallHeights ==
    { fnCall.options[k].VideoStream.Height :
         k \in { j \in 1..Len(fnCall.options) :
                    /\ ~fnCall.options[j].IsAudioOnly
                    /\ fnCall.options[j].VideoStream # NilStream } }

SetMax(S) == CHOOSE x \in S : \A y \in S : y <= x
SetMin(S) == CHOOSE x \in S : \A y \in S : x <= y

\* the height the quality preference asks for among the heights H
WantedHeight(H, quality) ==
    CASE quality = QualityHighest -> SetMax(H)
      [] quality = QualityLowest  -> SetMin(H)
      [] OTHER ->
           LET N == CASE quality = QualityUpTo360p  -> 360
                      [] quality = QualityUpTo480p  -> 480
                      [] quality = QualityUpTo720p  -> 720
                      [] quality = QualityUpTo1080p -> 1080
               within == {h \in H : h <= N}
           IN IF within = {} THEN SetMin(H) ELSE SetMax(within)

\* C16: with at least one video-bearing option, the option returned has the
\* maximum height for highest, the minimum for lowest, and for <=N the
\* greatest height not above N, or the minimum height when none is.
C16_SelectedHeight ==
    (fnCall.fn = "SelectBestOption" /\ fnResult # NoResult
        /\ CallHeights # {})
    => /\ fnResult.option # NilOption
       /\ fnResult.option.VideoStream.Height =
             WantedHeight(CallHeights, fnCall.quality)

\* C16 witness: 2160 and 1080 only, preference <=720p: the minimum, 1080.
C16_Witness ==
    /\ fnCall.fn = "SelectBestOption"
    /\ fnResult # NoResult
    /\ CallHeights = {1080, 2160}
    /\ fnCall.quality = QualityUpTo720p
    /\ fnResult.option.VideoStream.Height = 1080

\* the positions of the call's options that survive the quality filter
SurvivingPositions ==
    { k \in 1..Len(fnCall.options) :
         /\ ~fnCall.options[k].IsAudioOnly
         /\ fnCall.options[k].VideoStream # NilStream
         /\ fnCall.options[k].VideoStream.Height =
               WantedHeight(CallHeights, fnCall.quality) }

\* C17: among the options that survive the quality filter the result is the
\* first one in the preferred container when there is one, else the first
\* one in input order; the height is the same whatever the container
\* preference.
C17_ContainerPreference ==
    (fnCall.fn = "SelectBestOption" /\ fnResult # NoResult
        /\ CallHeights # {})
    => LET preferred == { k \in SurvivingPositions :
                            fnCall.options[k].Container =
                               fnCall.preferredContainer }
       IN /\ preferred # {} =>
                fnResult.option = fnCall.options[SetMin(preferred)]
          /\ preferred = {} =>
                fnResult.option = fnCall.options[SetMin(SurvivingPositions)]
          /\ \A c \in {"mp4", "webm", "mp3"} :
                SelectBestOption(fnCall.options, fnCall.quality, c)
                      .VideoStream.Height
                   = fnResult.option.VideoStream.Height

\* C17 witness: the preferred container comes second among the survivors.
C17_Witness ==
    /\ fnCall.fn = "SelectBestOption"
    /\ fnResult # NoResult
    /\ Len(fnCall.options) = 3
    /\ fnCall.options[1].VideoStream # NilStream
    /\ fnCall.options[2].VideoStream # NilStream
    /\ fnCall.options[3].VideoStream # NilStream
    /\ fnCall.options[1].VideoStream.Height = 360
    /\ fnCall.options[2].VideoStream.Height = 720
    /\ fnCall.options[3].VideoStream.Height = 720
    /\ fnCall.options[2].Container = "mp4"
    /\ fnCall.options[3].Container = "webm"
    /\ fnCall.preferredContainer = "webm"
    /\ fnCall.quality = QualityHighest
    /\ fnResult.option = fnCall.options[3]

\* ---------------------------------------------------- claims: ResolveQuery
YoutubeDotComHosts == {HostYoutube, HostWww, HostMobile}

\* the call's input is a recognized video URL shape on a recognized host,
\* or the raw id
RecognizedVideoInput ==
    \/ fnCall.shape = "raw"
    \/ /\ fnCall.shape \in {"watch", "watch&t"}
       /\ ToLower(fnCall.host) \in YoutubeDotComHosts \cup {HostShort}
    \/ /\ fnCall.shape \in {"short", "short?t"}
       /\ ToLower(fnCall.host) = HostShort
    \/ /\ fnCall.shape \in {"embed", "embed?", "embed/", "v", "v?", "v/"}
       /\ ToLower(fnCall.host) \in YoutubeDotComHosts

\* C18: for the raw id V and for every recognized URL shape on a recognized
\* host, ResolveQuery returns kind video with VideoID = V.
C18_VideoResolves ==
    (fnCall.fn = "ResolveQuery" /\ fnResult # NoResult
        /\ RecognizedVideoInput)
    => /\ fnResult.query.Type = "video"
       /\ fnResult.query.VideoID = fnCall.videoID

\* C19: a watch URL on a YouTube host with a valid id in v and a list
\* parameter resolves to kind video with VideoID = v; PlaylistID is the
\* list parameter when that is a valid playlist id and empty otherwise.
C19_VideoWithPlaylist ==
    (fnCall.fn = "ResolveQuery" /\ fnResult # NoResult
        /\ fnCall.shape \in {"watch&list", "list&watch"}
        /\ ToLower(fnCall.host) \in YoutubeDotComHosts \cup {HostShort})
    => /\ fnResult.query.Type = "video"
       /\ fnResult.query.VideoID = fnCall.videoID
       /\ fnResult.query.PlaylistID =
             IF \/ fnCall.list = <<"P", "L">> \o Repeat("q", PlaylistBodyLen)
                \/ fnCall.list = <<"W", "L">>
                \/ fnCall.list = <<"R", "D">> \o Repeat("a", VideoIDLen)
             THEN fnCall.list ELSE <<>>

\* C19 witness: a list parameter that is not a playlist id was dropped, the
\* list parameter coming first.
C19_Witness ==
    /\ fnCall.fn = "ResolveQuery"
    /\ fnResult # NoResult
    /\ fnCall.shape = "list&watch"
    /\ fnCall.host = HostMobileUpper
    /\ fnCall.list = <<"P", "L", "x">>
    /\ fnResult.query.Type = "video"
    /\ fnResult.query.VideoID = fnCall.videoID
    /\ fnResult.query.PlaylistID = <<>>

\* the parsers that accept the input
AcceptedBy(input) ==
    (IF ParseVideoID(input) # <<>> THEN {"video"} ELSE {})
    \cup (IF ParsePlaylistID(input) # <<>> THEN {"playlist"} ELSE {})
    \cup (IF ParseChannelIdentifier(input) # NoChannel THEN {"channel"}
          ELSE {})

\* the kind of highest priority among kinds
HighestPriority(kinds) ==
    CASE "video" \in kinds    -> "video"
      [] "playlist" \in kinds -> "playlist"
      [] "channel" \in kinds  -> "channel"
      [] OTHER -> ""

PriorityHolds(kinds, type) ==
    Cardinality(kinds) > 1 => type = HighestPriority(kinds)

\* C22: an input accepted by more than one parser resolves to the kind of
\* highest priority, search ("?" prefix) > video > playlist > channel; an
\* 11-character string that is a video id and a playlist id is a video.
C22_Priority ==
    (fnCall.fn = "ResolveQuery" /\ fnResult # NoResult) =>
       /\ fnCall.shape = "search" =>
             /\ fnResult.query.Type = "search"
             /\ fnResult.query.SearchQuery = fnCall.videoID
       /\ fnCall.shape # "search" =>
             PriorityHolds(AcceptedBy(InputText(fnCall)),
                           fnResult.query.Type)
       /\ (fnCall.shape = "raw" /\ fnCall.videoID \in AmbiguousIDs) =>
             /\ fnResult.query.Type = "video"
             /\ fnResult.query.VideoID = fnCall.videoID
             /\ fnResult.query.PlaylistID = <<>>

\* C22 witness: UUxxxxxxxxx, a playlist id of 11 characters, has resolved
\* to a video.
C22_Witness ==
    /\ fnCall.fn = "ResolveQuery"
    /\ fnResult # NoResult
    /\ fnCall.shape = "raw"
    /\ fnCall.videoID = <<"U", "U">> \o Repeat("x", VideoIDLen - 2)
    /\ IsValidPlaylistID(fnCall.videoID)
    /\ IsValidVideoID(fnCall.videoID)
    /\ fnResult.query.Type = "video"

\* C22 second case: a channel URL with a list parameter, accepted as a
\* playlist and as a channel, has resolved to the playlist.
C22_WitnessPlaylist ==
    /\ fnCall.fn = "ResolveQuery"
    /\ fnResult # NoResult
    /\ fnCall.shape = "channel&list"
    /\ AcceptedBy(InputText(fnCall)) = {"playlist", "channel"}
    /\ fnResult.query.Type = "playlist"

\* the call's options that are not audio-only and have a video stream
Selectable ==
    { fnCall.options[k] : k \in CallVideoPositions }

\* C25: SelectBestOption returns no option exactly when no input option is
\* both non-audio-only and has a video stream (the empty input included);
\* an option it returns is one of the inputs, is not audio-only and has a
\* video stream.
C25_NilExactlyWithoutVideo ==
    (fnCall.fn = "SelectBestOption" /\ fnResult # NoResult) =>
       /\ fnResult.option = NilOption <=> Selectable = {}
       /\ fnResult.option # NilOption => fnResult.option \in Selectable

\* C25 witness: among an audio-only option that carries a video stream and
\* an option without a video stream nothing was selected.
C25_Witness ==
    /\ fnCall.fn = "SelectBestOption"
    /\ fnResult # NoResult
    /\ Len(fnCall.options) = 2
    /\ fnCall.options[1].IsAudioOnly
    /\ fnCall.options[1].VideoStream # NilStream
    /\ ~fnCall.options[2].IsAudioOnly
    /\ fnCall.options[2].VideoStream = NilStream
    /\ fnResult.option = NilOption

\* C25 second case: an option was selected past an audio-only one.
C25_WitnessSelected ==
    /\ fnCall.fn = "SelectBestOption"
    /\ fnResult # NoResult
    /\ Len(fnCall.options) = 2
    /\ fnCall.options[1].IsAudioOnly
    /\ fnResult.option = fnCall.options[2]

\* ----------------------------------------------- claims: GetDownloadOptions
StreamsOf(list) == { list[k] : k \in 1..Len(list) }

Loudest(candidates, a) ==
    a \in candidates /\ \A x \in candidates : x.Bitrate <= a.Bitrate

\* the audio stream a may be paired with the video stream vs
PairedAsSpecified(all, same, vs, a) ==
    IF all = {} THEN a = NilStream
    ELSE IF vs.Container \in {"mp4", "webm"} /\ same # {}
    THEN Loudest(same, a)
    ELSE Loudest(all, a)

VideoOptionAsSpecified(m, vs, o) ==
    /\ o.VideoStream = vs
    /\ ~o.IsAudioOnly
    /\ o.Container = vs.Container
    /\ PairedAsSpecified(StreamsOf(m.AudioStreams),
                         {x \in StreamsOf(m.AudioStreams) :
                             x.Container = vs.Container},
                         vs, o.AudioStream)

OptionsAsSpecified(m, os, nv, nm, na) ==
    /\ Len(os) = nv + nm + na
    /\ \A k \in 1..nv : VideoOptionAsSpecified(m, m.VideoStreams[k], os[k])
    /\ \A k \in 1..nm :
          /\ os[nv + k].VideoStream = m.MuxedStreams[k].VideoStreamInfo
          /\ os[nv + k].AudioStream = m.MuxedStreams[k].AudioStreamInfo
          /\ ~os[nv + k].IsAudioOnly
    /\ \A k \in 1..na :
          /\ os[nv + nm + k].IsAudioOnly
          /\ os[nv + nm + k].VideoStream = NilStream
          /\ os[nv + nm + k].AudioStream = m.AudioStreams[k]

\* C24: GetDownloadOptions emits one option per video stream, then one per
\* muxed stream, then one audio-only option per audio stream; a video
\* stream is paired with the highest-bitrate audio stream of its own
\* container (mp4, webm), else with the highest-bitrate audio stream of any
\* container, and has no audio stream only when the manifest has none.
C24_OptionsOrderAndPairing ==
    (fnCall.fn = "GetDownloadOptions" /\ fnResult # NoResult) =>
        OptionsAsSpecified(fnCall.manifest, fnResult.options,
                           Len(fnCall.manifest.VideoStreams),
                           Len(fnCall.manifest.MuxedStreams),
                           Len(fnCall.manifest.AudioStreams))

\* C24 witness: an mp4 video stream got the mp4 audio stream of 128 kbit/s
\* although a webm audio stream has 160, and the options are video, muxed,
\* audio, audio.
C24_Witness ==
    /\ fnCall.fn = "GetDownloadOptions"
    /\ fnResult # NoResult
    /\ fnCall.manifest.VideoStreams = <<VideoStreamInfo("ok1", 1080, "mp4")>>
    /\ fnCall.manifest.AudioStreams = <<AudioStreamInfo("", 160, "webm"),
                                        AudioStreamInfo("ok2", 128, "mp4")>>
    /\ Len(fnCall.manifest.MuxedStreams) = 1
    /\ Len(fnResult.options) = 4
    /\ fnResult.options[1].AudioStream = AudioStreamInfo("ok2", 128, "mp4")
    /\ fnResult.options[4].IsAudioOnly

\* C24 second case: a 3gp video stream, no audio stream in its container,
\* got the best audio stream of any container.
C24_WitnessFallback ==
    /\ fnCall.fn = "GetDownloadOptions"
    /\ fnResult # NoResult
    /\ fnCall.manifest.VideoStreams # <<>>
    /\ fnCall.manifest.VideoStreams[1].Container = "3gp"
    /\ fnResult.options[1].AudioStream = AudioStreamInfo("ok1", 160, "webm")

\* ------------------------------------------- claims: downloadSingleVideo
\* downloadSingleVideo has called SelectBestOption
SelectionMade ==
    /\ manifest # NoManifest
    /\ ~AudioOnly(opts)
    /\ opc \notin {"streamingdata", "options"}

\* C26: SelectBestOption(GetDownloadOptions(manifest)) is nil only when the
\* manifest has neither video nor muxed streams, so downloadSingleVideo
\* never downloads the first muxed stream because the selection is empty.
C26_NoSelectionOnlyWithoutVideo ==
    (SelectionMade /\ selectedOption = NilOption) =>
       /\ manifest.VideoStreams = <<>>
       /\ manifest.MuxedStreams = <<>>
       /\ opc # "muxed"
       /\ \A t \in Tasks : tpc[t] = "idle"
       /\ opc \in {"done", "returned"}
       /\ oerr = ErrNoSuitable

\* C26 witness: a manifest with audio streams only, quality best, format
\* mp4: nothing was selected and the download ended.
C26_Witness ==
    /\ SelectionMade
    /\ selectedOption = NilOption
    /\ manifest.AudioStreams # <<>>
    /\ opc = "done"
    /\ oerr = ErrNoSuitable

\* C26 second case: with muxed streams only, the muxed stream was selected
\* as an option and is downloaded as that option.
C26_WitnessMuxedSelected ==
    /\ SelectionMade
    /\ manifest.VideoStreams = <<>>
    /\ manifest.MuxedStreams # <<>>
    /\ selectedOption # NilOption
    /\ selectedOption.VideoStream = manifest.MuxedStreams[1].VideoStreamInfo
    /\ opc = "single"

\* ------------------------------------------------- claims: downloadAndMux
\* downloadAndMux has been entered and has its temporary directory
InDownloadAndMux == tempDir # "none"

\* how many times the muxer has been called
MuxerCalls ==
    Cardinality({ k \in 1..Len(out) : out[k] = <<"Muxing streams...">> })

\* C28: in downloadAndMux the muxer is invoked at most once and only after
\* the video download and the audio download have both returned success;
\* when the video download fails the audio download is never started; when
\* a download fails or no muxer is supplied the muxer is never invoked and
\* the output path is never written.
C28_MuxAfterBothDownloads ==
    /\ MuxerCalls <= 1
    /\ muxpc # "idle" <=> MuxerCalls = 1
    /\ muxpc # "idle" =>
          /\ InDownloadAndMux
          /\ muxer # "nil"
          /\ \A t \in Tasks : tpc[t] = "done" /\ terr[t] = NilErr
    /\ (InDownloadAndMux /\ terr[1] # NilErr) => tpc[2] = "idle"
    /\ (InDownloadAndMux
          /\ (terr[1] # NilErr \/ terr[2] # NilErr \/ muxer = "nil")) =>
          /\ muxpc = "idle"
          /\ children = <<>>
          /\ files[OutputPath(opts)] = NoFile

\* C28 witness: both downloads succeeded, the muxer ran once and the output
\* file is written.
C28_Witness ==
    /\ InDownloadAndMux
    /\ opc = "done"
    /\ oerr = NilErr
    /\ MuxerCalls = 1
    /\ Len(children) = 1
    /\ files[OutputPath(opts)] # NoFile

\* C28 second case: the video download failed and downloadAndMux returned
\* without an audio download.
C28_WitnessVideoFails ==
    /\ InDownloadAndMux
    /\ opc = "done"
    /\ oerr = ErrVideoDownload
    /\ tpc[2] = "idle"
    /\ muxpc = "idle"

\* C28 third case: both downloads succeeded and there is no muxer.
C28_WitnessNoMuxer ==
    /\ InDownloadAndMux
    /\ opc = "done"
    /\ oerr = ErrNoMuxer
    /\ \A t \in Tasks : tpc[t] = "done" /\ terr[t] = NilErr
    /\ files[OutputPath(opts)] = NoFile

\* downloadAndMux has returned
MuxPathLeft == InDownloadAndMux /\ opc \in {"done", "returned"}

TempFilesGone == \A p \in TempPaths : files[p] = NoFile

\* C29: the temporary directory of downloadAndMux, with the intermediate
\* video and audio files, is removed before downloadAndMux returns, on
\* every exit path: success, video download failure, audio download
\* failure, missing muxer, mux failure and cancellation.
C29_TempDirRemoved ==
    MuxPathLeft =>
       /\ tempDir = "removed"
       /\ TempFilesGone
       /\ oerr \in {NilErr, ErrVideoDownload, ErrAudioDownload, ErrNoMuxer,
                    ErrMuxStreams}

\* C29 witness: the audio download was cancelled while it wrote its file,
\* after the video file was complete; both files are gone.
C29_Witness ==
    /\ MuxPathLeft
    /\ oerr = ErrAudioDownload
    /\ terr[2] = ErrWriting
    /\ downloaded[1] > 0
    /\ downloaded[2] > 0
    /\ tempDir = "removed"
    /\ TempFilesGone

\* C29, the other exit paths
C29_WitnessSuccess ==
    MuxPathLeft /\ oerr = NilErr /\ TempFilesGone
       /\ files[OutputPath(opts)] # NoFile
C29_WitnessVideoFails ==
    MuxPathLeft /\ oerr = ErrVideoDownload /\ downloaded[1] > 0
       /\ TempFilesGone
C29_WitnessNoMuxer ==
    MuxPathLeft /\ oerr = ErrNoMuxer /\ downloaded[2] > 0 /\ TempFilesGone
C29_WitnessMuxFails ==
    MuxPathLeft /\ oerr = ErrMuxStreams /\ odetail = ErrMuxFailed
       /\ TempFilesGone
C29_WitnessMuxCancelled ==
    MuxPathLeft /\ oerr = ErrMuxStreams /\ ctxCancelled /\ TempFilesGone

\* ------------------------------------------- claims: MuxStreamsWithContext
\* C20: when the discovery of the executable finds nothing, the mux returns
\* the not-found error at once: no child process is spawned and the output
\* file is not written (it is as it was before the call).
C20_NotFoundFailsFast ==
    (muxpc # "idle" /\ \A k \in 1..Len(ProbeDirectoryPaths(env)) :
                          ProbeDirectoryPaths(env)[k] \notin env.ffmpegIn)
    => /\ children = <<>>
       /\ muxpc \in {"lookup", "returned"}
       /\ files[muxArgs.outputPath] \in {NoFile, <<"old">>}
       /\ muxpc = "returned" => muxErr = ErrNotFound

\* C20 witness: an ffmpeg exists, but in no probed directory, and the mux
\* has returned.
C20_Witness ==
    /\ muxpc = "returned"
    /\ muxErr = ErrNotFound
    /\ env.ffmpegIn = {"usr"}
    /\ env.path = <<"bin">>
    /\ files[muxArgs.videoPath] # NoFile
    /\ files[muxArgs.audioPath] # NoFile

\* --------------------------------------------- claims: runDownloadWithDeps
FetchedOrDownloaded ==
    \/ fetches > 0
    \/ \E k \in 1..Len(out) : out[k][1] = "Fetching video info"
    \/ \E t \in Tasks : tpc[t] # "idle"
    \/ \E f \in DOMAIN files : files[f] # NoFile

\* C10: for a query that is not a video nothing is fetched or downloaded,
\* and the run ends with: search -> unsupported-for-download; playlist ->
\* playlist-fetch-unimplemented; channel of kind id -> the uploads playlist
\* (UC replaced by UU) handed to the playlist path, which fails the same
\* way; channel of another kind -> channel-resolution-unsupported.
C10_DispatchOnKind ==
    /\ (query # NoQuery /\ query.Type # "video") => ~FetchedOrDownloaded
    /\ opc = "done" =>
          /\ query.Type = "search" => oerr = ErrSearch /\ out = <<>>
          /\ query.Type = "playlist" =>
                oerr = ErrPlaylist /\ playlistArg = query.PlaylistID
          /\ (query.Type = "channel" /\ query.Channel.Type = "id") =>
                /\ oerr = ErrPlaylist
                /\ playlistArg =
                      <<"U", "U">> \o SubSeq(query.Channel.Value, 3,
                                             Len(query.Channel.Value))
                /\ Len(playlistArg) = Len(query.Channel.Value)
                /\ out[3] = <<"Playlist download", playlistArg>>
          /\ (query.Type = "channel" /\ query.Channel.Type # "id") =>
                oerr = ErrChannel /\ playlistArg = <<>>

\* C10 witness: a channel given by an ID that repeats UC has ended on the
\* playlist path with its uploads playlist.
C10_Witness ==
    /\ opc = "done"
    /\ query.Type = "channel"
    /\ query.Channel.Type = "id"
    /\ query.Channel.Value[3] = "U"
    /\ playlistArg = <<"U", "U", "U", "C">> \o Repeat("7", ChannelIDBodyLen - 2)
    /\ oerr = ErrPlaylist

\* ------------------------------------------- claims: downloadSingleVideo
\* the player response has been extracted and its status is not "OK"
Unplayable == playerResponse # NoResponse /\ playerResponse.Status # "OK"

\* C11: when playabilityStatus.status is not "OK" the download ends with the
\* video-unavailable error carrying the reason, before any later step: no
\* stream is downloaded, no multiplexer is invoked, no file is created.
C11_UnavailableEndsDownload ==
    Unplayable =>
       /\ opc \in {"playability", "done", "returned"}
       /\ \A t \in Tasks : tpc[t] = "idle"
       /\ muxpc = "idle"
       /\ children = <<>>
       /\ tempDir = "none"
       /\ \A p \in DOMAIN files : files[p] = NoFile
       /\ opc \in {"done", "returned"} =>
             /\ oerr = ErrUnavailable
             /\ odetail # NilErr
             /\ playerResponse.Reason # "" => odetail = playerResponse.Reason

\* C11 witness: a response with status ERROR and a reason has ended the
\* download with that reason.
C11_Witness ==
    /\ opc = "done"
    /\ playerResponse.Status = "ERROR"
    /\ playerResponse.Reason = "Video unavailable"
    /\ playerResponse.StreamingData
    /\ oerr = ErrUnavailable
    /\ odetail = "Video unavailable"

\* C12: with a selected option whose video and audio URLs are distinct and
\* not empty, the two streams are downloaded concurrently (while the video
\* download is awaited the audio download has been started as well), the
\* multiplexer is invoked only after both downloads have completed, and a
\* failure of a download or of the mux is the download's error.
C12_ConcurrentThenMux ==
    /\ opc = "videodl" => tpc[2] # "idle"
    /\ muxpc # "idle" =>
          /\ tpc[1] = "done" /\ terr[1] = NilErr
          /\ tpc[2] = "done" /\ terr[2] = NilErr
    /\ (opc = "done" /\ tempDir = "removed"
           /\ (terr[1] # NilErr \/ terr[2] # NilErr \/ muxErr # NilErr))
          => oerr # NilErr

\* Every stream of the manifest m has an empty URL
AllURLsEmpty(m) ==
    /\ \A k \in 1..Len(m.VideoStreams) : m.VideoStreams[k].URL = ""
    /\ \A k \in 1..Len(m.AudioStreams) : m.AudioStreams[k].URL = ""
    /\ \A k \in 1..Len(m.MuxedStreams) :
          /\ m.MuxedStreams[k].VideoStreamInfo.URL = ""
          /\ m.MuxedStreams[k].AudioStreamInfo.URL = ""

\* The orchestrator's errors that say there is no stream to download
NoDownloadableStream ==
    {ErrNoDownloadable, ErrNoSuitable, ErrMuxedNoURL, ErrAudioNoURL,
     ErrNoAudio}

\* C13: no stream request is ever issued for an empty URL, and with a
\* manifest whose streams all have an empty URL a request for "best" ends
\* with no-downloadable-stream.
C13_EmptyURLNeverDownloaded ==
    /\ \A t \in Tasks : tpc[t] # "idle" => args[t].url # ""
    /\ (opc = "done" /\ manifest # NoManifest /\ AllURLsEmpty(manifest)
           /\ opts.quality = "best")
          => oerr \in NoDownloadableStream

\* C13 witness: a manifest with a video, an audio and a muxed stream, each
\* with an empty URL, has ended a request for "best" in mp4 with the
\* no-downloadable-stream error, nothing having been requested.
C13_Witness ==
    /\ opc = "done"
    /\ opts = [quality |-> "best", format |-> "mp4"]
    /\ manifest # NoManifest
    /\ manifest.VideoStreams = <<VideoStreamInfo("", 1080, "mp4")>>
    /\ manifest.AudioStreams = <<AudioStreamInfo("", 128, "mp4")>>
    /\ manifest.MuxedStreams = <<MuxedStreamInfo("", 360, "mp4")>>
    /\ oerr = ErrNoDownloadable
    /\ \A t \in Tasks : tpc[t] = "idle"

\* some download of the command was cut by the cancellation of ctx
DownloadCancelled == \E t \in Tasks : terr[t] \in CancelErrors

\* C21: a cancellation that occurs during a download reaches the caller of
\* the download command unwrapped: the error returned is the cancellation
\* error itself, with no message layer added by the downloader, the
\* orchestrator or WrapError.
C21_CancellationUnwrapped ==
    (opc = "returned" /\ DownloadCancelled)
       => cmdErr = [Friendly |-> "", Err |-> CtxCanceled, Detail |-> NilErr]

====
